---------------------------- MODULE Spec2Model ----------------------------
(***************************************************************************)
(* A model of the crawl UI of vtrpza/crawled: the two top-level components *)
(* (src/src/App.svelte and AppEnhanced, src/unnamed/part_001), the search  *)
(* form (src/src/components/SearchInterface.svelte), the result normalizer *)
(* (callSmartBackend) and the display components that read its output.     *)
(*                                                                         *)
(* JavaScript values: `undefined`/`null` object references are the record  *)
(* Null; an absent or undefined string field is the string Undef; the      *)
(* empty string is "".  Both are falsy, every other string is truthy.      *)
(***************************************************************************)
EXTENDS Integers, Sequences, FiniteSets, TLC

\* ------------------------------------------------------------------ bounds
\* Logical clock ticks available to the terminal-log specification.
MaxClock == 53
\* Longest URL (in tokens) typed into the search field.
MaxUrlLen == 2
\* Most URLs listed in one batch submission.
MaxBatch == 3
\* Most submissions (calls of the top-level submit handler) in one behaviour.
MaxRuns == 2
\* Most backend requests issued in one behaviour, over all submissions.
MaxRequests == 3
\* Most PURGE clicks recorded in the log in one behaviour of AppEnhanced.
MaxClears == 1
\* Most calls of fetchHistory in one behaviour of the history view.
MaxFetches == 3
\* Most pages a history listing reports.
MaxPages == 2
\* The longest listing, in pages, the pagination bar is exercised with.
MaxTotalPages == 7
\* Most log lines the modal handlers write in one behaviour.
MaxModalLogs == 4

\* ------------------------------------------------------- program constants
\* "Keep only last 50 logs": if (terminalLogs.length > 50)
MaxLogs == 50
\* detectIntent: confidence 0.8 on a pattern match, 0.5 otherwise (in tenths).
MatchConfidence == 8
GeneralConfidence == 5

\* ------------------------------------------------------------ JS values
Null == [isNull |-> TRUE]
Undef == "undefined"

IsNull(x) == x = Null

\* JS truthiness of a string-or-undefined value.
Truthy(s) == s # Undef /\ s # ""

\* a || b on string-or-undefined values.
Or(a, b) == IF Truthy(a) THEN a ELSE b

\* ----------------------------------------------------- backend responses
\* What one fetch of /api/smart-crawl (or /api/crawl) can produce:
\*   net    "fail": fetch rejects (no connection); "ok": a response arrived
\*   http   the HTTP status; response.ok is 200 <= http <= 299
\*   json   what response.json() yields: an object, the JSON value null, or a
\*          rejection because the body is not JSON
\* and, for an object body, the fields the UI reads (Undef: field absent).
\* Fields that are copied through unchanged (metadata, media, ...) are left out.
MakeResponse(net, http, json, status, error, syn, ana, ext, con, sf) ==
    [net |-> net, http |-> http, json |-> json, status |-> status, error |-> error,
     ai_synthesis |-> syn, ai_analysis |-> ana, extracted_content |-> ext,
     content |-> con, stealth_features |-> sf]

NoResponse == MakeResponse("none", 0, "invalid", Undef, Undef, Undef, Undef, Undef, Undef, Undef)

NetworkFailure == MakeResponse("fail", 0, "invalid", Undef, Undef, Undef, Undef, Undef, Undef, Undef)

ResponseOk(resp) == resp.http >= 200 /\ resp.http <= 299

\* A null URL reference (batchProgress.current = null, an error object's
\* missing url): a sequence that is no URL.
NullUrl == <<Undef>>

\* One activation of the submit handler.
\*   pc       "idle": not started; "fetch": awaiting callSmartBackend for a
\*            single URL; "bfetch": awaiting it inside the batch loop;
\*            "bdelay": awaiting the 500 ms timer; "efetch": AppEnhanced's
\*            handleCrawlSubmit awaiting fetch and response.json();
\*            "done": returned
\*   data     the formData argument
\*   i, completed, failed, batchResults   locals of handleBatchProcessing
\*   sent     the url of every request issued so far, in order
\*   answers  what came back for each of them, in order
IdleRun ==
    [pc |-> "idle", data |-> Null, i |-> 0, completed |-> 0, failed |-> 0,
     batchResults |-> <<>>, sent |-> <<>>, answers |-> <<>>]

\* --------------------------------------------------------------- state
VARIABLES
    terminalLogs,   \* App / AppEnhanced: let terminalLogs = $state([])
    now,            \* the wall clock read by new Date().toLocaleTimeString()
    currentUrl,     \* SearchInterface: let currentUrl = $state('')
    detectedIntent, \* SearchInterface: $derived(currentUrl ? detectIntent(currentUrl) : null)
    submitted,      \* the data SearchInterface last passed to onSubmit (Null: none yet)
    response,       \* normalizer: what fetch / response.json() produced for one call
    normalized,     \* normalizer: what callSmartBackend returned for it (Null: not yet)
    isProcessing,   \* App / AppEnhanced: let isProcessing = $state(false)
    results,        \* App / AppEnhanced: let results = $state(null)
    batchProgress,  \* App / AppEnhanced: let batchProgress = $state(null)
    runs,           \* the activations of the async submit handler: each one's
                    \* position, arguments and locals, and the requests it has
                    \* issued (sent) with what came back (answers)
    aiModel,        \* SearchInterface: let aiModel = $state('groq')
    crawlStrategy,  \* SearchInterface: let crawlStrategy = $state('bfs')
    visible,        \* CrawlHistory: the visible prop
    loading,        \* CrawlHistory: let loading = $state(false)
    histError,      \* CrawlHistory: let error = $state(null)
    histResults,    \* CrawlHistory: let results = $state([])
    currentPage,    \* CrawlHistory: let currentPage = $state(1)
    totalPages,     \* CrawlHistory: let totalPages = $state(1)
    searchQuery,    \* CrawlHistory: let searchQuery = $state('')
    selectedMode,   \* CrawlHistory: let selectedMode = $state('')
    selectedStatus, \* CrawlHistory: let selectedStatus = $state('')
    fetches,        \* the activations of fetchHistory, in the order they were
                    \* started: the query string each one sent and what came back
    storedKey,      \* localStorage['crawl4ai_api_key'] (NullKey: no such item)
    apiKey,         \* App / AppEnhanced: let apiKey = $state(... || null)
    hasPromptedForApiKey, \* App / AppEnhanced: let hasPromptedForApiKey = $state(false)
    effectDue,      \* App / AppEnhanced: the $effect is scheduled to run
    promptTimer,    \* the setTimeout callbacks of promptForApiKey not yet fired
    prompts,        \* what the user answered each time prompt() was shown since
                    \* the page loaded, in order
    databaseStatus, \* AppEnhanced: let databaseStatus = $state('unknown')
    healthChecks,   \* the activations of checkDatabaseStatus: each one's position
                    \* and the health response it received
    showResultViewer, \* AppEnhanced: let showResultViewer = $state(false)
    selectedResultId  \* AppEnhanced: let selectedResultId = $state(null)

logVars == <<terminalLogs, now>>
formVars == <<currentUrl, detectedIntent, submitted, aiModel, crawlStrategy>>
normVars == <<response, normalized>>
appVars == <<isProcessing, results, batchProgress, runs>>
histVars == <<visible, loading, histError, histResults, currentPage, totalPages,
              searchQuery, selectedMode, selectedStatus, fetches>>
keyVars == <<storedKey, apiKey, hasPromptedForApiKey, effectDue, promptTimer, prompts>>
dbVars == <<databaseStatus, healthChecks>>
modalVars == <<showResultViewer, selectedResultId>>
sideVars == <<histVars, keyVars, dbVars, modalVars>>

vars == <<terminalLogs, now, currentUrl, detectedIntent, submitted, response, normalized,
          isProcessing, results, batchProgress, runs, aiModel, crawlStrategy,
          histVars, keyVars, dbVars, modalVars>>

\* ------------------------------------------- components left untouched
\* The state of a component as its declarations leave it.  A specification
\* that does not exercise the component starts it here and never changes it.

\* CrawlHistory.svelte, lines 4-16 (error = null is the string Undef).
HistoryClosed ==
    /\ visible = FALSE
    /\ loading = FALSE
    /\ histError = Undef
    /\ histResults = <<>>
    /\ currentPage = 1
    /\ totalPages = 1
    /\ searchQuery = ""
    /\ selectedMode = ""
    /\ selectedStatus = ""
    /\ fetches = <<>>

\* A key is a line of tokens, like a URL; a null key (getItem finding
\* nothing, prompt() cancelled, apiKey = null) is a sequence that is no line.
NullKey == <<Undef>>

\* A page loaded with nothing in local storage, before the first $effect run.
NoKeyState ==
    /\ storedKey = NullKey
    /\ apiKey = NullKey
    /\ hasPromptedForApiKey = FALSE
    /\ effectDue = TRUE
    /\ promptTimer = 0
    /\ prompts = <<>>

\* let databaseStatus = $state('unknown'), and no check started.
DatabaseUnchecked ==
    /\ databaseStatus = "unknown"
    /\ healthChecks = <<>>

\* let showResultViewer = $state(false), let selectedResultId = $state(null)
\* (a null or undefined id is the string Undef).
ViewerClosed ==
    /\ showResultViewer = FALSE
    /\ selectedResultId = Undef

\* ------------------------------------------------------- terminal log
LogLevels == {"info"}
LogMessages == {"m"}

\* A plausible slip: keep the first 50 entries (slice(0, 50)), which drops
\* the entry just appended instead of the oldest one.
addTerminalLogDropsNewest(logs, message, level, timestamp) ==
    LET appended == Append(logs, [message |-> message, level |-> level,
                                  timestamp |-> timestamp])
    IN  IF Len(appended) > MaxLogs THEN SubSeq(appended, 1, MaxLogs) ELSE appended

\* addTerminalLog(message, level): append, then drop the oldest entry when
\* the list has grown past 50.
addTerminalLog(logs, message, level, timestamp) ==
    LET appended == Append(logs, [message |-> message, level |-> level,
                                  timestamp |-> timestamp])
    IN  IF Len(appended) > MaxLogs THEN Tail(appended) ELSE appended

\* clearLogs(): the terminal panel's clear button; the panel is rendered only
\* while the log is non-empty.
clearLogs == <<>>

InitLog ==
    /\ terminalLogs = <<>>
    /\ now = 0
    /\ currentUrl = <<>>
    /\ detectedIntent = Null
    /\ submitted = Null
    /\ aiModel = "groq"
    /\ crawlStrategy = "bfs"
    /\ response = NoResponse
    /\ normalized = Null
    /\ isProcessing = FALSE
    /\ results = Null
    /\ batchProgress = Null
    /\ runs = [r \in 1..MaxRuns |-> IdleRun]
    /\ HistoryClosed
    /\ NoKeyState
    /\ DatabaseUnchecked
    /\ ViewerClosed

\* Some caller appends an entry; the clock has advanced by the next call.
AddTerminalLog ==
    /\ now < MaxClock
    /\ \E message \in LogMessages, level \in LogLevels :
           terminalLogs' = addTerminalLog(terminalLogs, message, level, now)
    /\ now' = now + 1
    /\ UNCHANGED <<formVars, normVars, appVars, sideVars>>

ClearLogs ==
    /\ Len(terminalLogs) > 0
    /\ terminalLogs' = clearLogs
    /\ UNCHANGED <<now, formVars, normVars, appVars, sideVars>>

NextLog == AddTerminalLog \/ ClearLogs

SpecLog == InitLog /\ [][NextLog]_vars

\* ------------------------------------------------------ intent detection
\* A URL is a finite sequence of tokens; the empty sequence is the empty
\* string.  " " is a whitespace token.
UrlTokens == {"news", "twitter", "shop", "list", "www"}

RECURSIVE SeqsUpTo(_, _)
SeqsUpTo(S, n) ==
    IF n = 0 THEN {<<>>}
    ELSE LET shorter == SeqsUpTo(S, n - 1)
         IN  shorter \cup {Append(q, x) : q \in {r \in shorter : Len(r) = n - 1}, x \in S}

Urls == SeqsUpTo(UrlTokens, MaxUrlLen)

\* The pattern table of lib/config.js, in insertion order: one regular
\* expression per intent type.  A pattern is represented by the token whose
\* occurrence anywhere in the URL makes the expression match.
patterns ==
    << [type |-> "article",   token |-> "news"],
       [type |-> "social",    token |-> "twitter"],
       [type |-> "ecommerce", token |-> "shop"],
       [type |-> "batch",     token |-> "list"] >>

\* pattern.test(url)
PatternTest(pattern, url) == \E i \in 1..Len(url) : url[i] = pattern.token

GeneralIntent == [type |-> "general", confidence |-> GeneralConfidence]

\* A plausible slip: the loop keeps going after a match, so the last matching
\* entry of the table wins.
detectIntentLastMatch(url) ==
    IF Len(url) = 0 THEN Null
    ELSE LET hits == {i \in 1..Len(patterns) : PatternTest(patterns[i], url)}
         IN  IF hits = {} THEN GeneralIntent
             ELSE [type |-> patterns[CHOOSE i \in hits : \A j \in hits : j <= i].type,
                   confidence |-> MatchConfidence]

\* A plausible slip: the fall-through result carries the match confidence.
detectIntentFlatConfidence(url) ==
    IF Len(url) = 0 THEN Null
    ELSE LET hits == {i \in 1..Len(patterns) : PatternTest(patterns[i], url)}
         IN  IF hits = {} THEN [type |-> "general", confidence |-> MatchConfidence]
             ELSE [type |-> patterns[CHOOSE i \in hits : \A j \in hits : i <= j].type,
                   confidence |-> MatchConfidence]

\* A plausible slip: the empty URL falls through the loop to the general
\* result instead of returning null.
detectIntentNoEmptyCheck(url) ==
    LET hits == {i \in 1..Len(patterns) : PatternTest(patterns[i], url)}
    IN  IF hits = {} THEN GeneralIntent
        ELSE [type |-> patterns[CHOOSE i \in hits : \A j \in hits : i <= j].type,
              confidence |-> MatchConfidence]

\* detectIntent(url): null for a falsy url; otherwise the type of the first
\* table entry whose pattern matches, with confidence 0.8; otherwise general
\* with confidence 0.5.  (icon and color, looked up in quickActions, are
\* presentation only and are left out.)
detectIntent(url) ==
    IF Len(url) = 0 THEN Null
    ELSE LET hits == {i \in 1..Len(patterns) : PatternTest(patterns[i], url)}
         IN  IF hits = {} THEN GeneralIntent
             ELSE [type |-> patterns[CHOOSE i \in hits : \A j \in hits : i <= j].type,
                   confidence |-> MatchConfidence]

\* const detectedIntent = $derived(currentUrl ? detectIntent(currentUrl) : null)
derivedIntent(url) == IF Len(url) > 0 THEN detectIntent(url) ELSE Null

\* detectedIntent || { type: 'general' }: the intent handed to the option
\* panels and used by handleSubmit.  The substitute has no confidence field.
intentOrGeneral(intent) == IF IsNull(intent) THEN [type |-> "general"] ELSE intent

\* ------------------------------------------------------ SearchInterface
\* String.prototype.trim on a line of tokens: leading and trailing
\* whitespace tokens are dropped.
RECURSIVE TrimLeft(_)
TrimLeft(line) ==
    IF Len(line) > 0 /\ Head(line) = " " THEN TrimLeft(Tail(line)) ELSE line

RECURSIVE TrimRight(_)
TrimRight(line) ==
    IF Len(line) > 0 /\ line[Len(line)] = " "
    THEN TrimRight(SubSeq(line, 1, Len(line) - 1))
    ELSE line

Trim(line) == TrimRight(TrimLeft(line))

\* batchUrls.split('\n').filter(url => url.trim()).map(url => url.trim())
RECURSIVE SplitBatchUrls(_)
SplitBatchUrls(lines) ==
    IF Len(lines) = 0 THEN <<>>
    ELSE IF Len(Trim(Head(lines))) > 0
         THEN <<Trim(Head(lines))>> \o SplitBatchUrls(Tail(lines))
         ELSE SplitBatchUrls(Tail(lines))

\* The options of the AI model and strategy selects of CoreOptions; '' is the
\* value handleClear leaves in aiModel.
AiModels == {"groq", "gpt-4", "claude-3", "gemini-pro", "ollama"}

Strategies == {"bfs", "dfs"}

\* A plausible slip: the request carries the model field as it stands.
handleSubmitDataNoFallback(url, intent, batchLines, model, strategy) ==
    LET shown == intentOrGeneral(intent)
        isBatch == shown.type = "batch"
    IN  [url |-> url,
         mode |-> "intelligent",
         intent |-> shown.type,
         detected_intent |-> shown,
         stealth |-> TRUE,
         stealth_level |-> IF shown.type = "stealth" THEN 8 ELSE 4,
         strategy |-> strategy,
         ai_extraction |-> [model |-> model, enabled |-> TRUE],
         urls_set |-> isBatch,
         urls |-> IF isBatch THEN SplitBatchUrls(batchLines) ELSE <<>>]

\* handleSubmit(): the request object passed to onSubmit.  urls is set only
\* for the batch intent (urls_set FALSE: urls is undefined).  finalAiModel is
\* aiModel || 'groq'.  (timeout, cache, media, page and depth limits and the
\* extraction query are passed through and are left out.)
handleSubmitData(url, intent, batchLines, model, strategy) ==
    LET shown == intentOrGeneral(intent)
        isBatch == shown.type = "batch"
        finalAiModel == IF model = "" THEN "groq" ELSE model
    IN  [url |-> url,
         mode |-> "intelligent",
         intent |-> shown.type,
         detected_intent |-> shown,
         stealth |-> TRUE,
         stealth_level |-> IF shown.type = "stealth" THEN 8 ELSE 4,
         strategy |-> strategy,
         ai_extraction |-> [model |-> finalAiModel, enabled |-> TRUE],
         urls_set |-> isBatch,
         urls |-> IF isBatch THEN SplitBatchUrls(batchLines) ELSE <<>>]

InitForm ==
    /\ terminalLogs = <<>>
    /\ now = 0
    /\ currentUrl = <<>>
    /\ detectedIntent = Null
    /\ submitted = Null
    /\ aiModel = "groq"
    /\ crawlStrategy = "bfs"
    /\ response = NoResponse
    /\ normalized = Null
    /\ isProcessing = FALSE
    /\ results = Null
    /\ batchProgress = Null
    /\ runs = [r \in 1..MaxRuns |-> IdleRun]
    /\ HistoryClosed
    /\ NoKeyState
    /\ DatabaseUnchecked
    /\ ViewerClosed

\* bind:value={currentUrl}: the user edits the URL field; the derived intent
\* is recomputed.
InputUrl ==
    /\ \E url \in Urls :
           /\ url # currentUrl
           /\ currentUrl' = url
           /\ detectedIntent' = derivedIntent(url)
    /\ UNCHANGED <<submitted, aiModel, crawlStrategy, logVars, normVars, appVars, sideVars>>

\* handleSubmit(): returns at once when the URL field is empty.
FormSubmit ==
    /\ Len(currentUrl) > 0
    /\ submitted' = handleSubmitData(currentUrl, detectedIntent, <<>>, aiModel, crawlStrategy)
    /\ UNCHANGED <<currentUrl, detectedIntent, aiModel, crawlStrategy, logVars, normVars, appVars, sideVars>>

\* handleClear(): PURGE resets the form; the model field is set to '' and
\* the strategy is not reset.
FormClear ==
    /\ currentUrl' = <<>>
    /\ detectedIntent' = derivedIntent(<<>>)
    /\ aiModel' = ""
    /\ UNCHANGED <<submitted, crawlStrategy, logVars, normVars, appVars, sideVars>>

\* bind:aiModel: the user picks an option of the AI model select.
SelectAiModel ==
    /\ \E model \in AiModels :
           /\ model # aiModel
           /\ aiModel' = model
    /\ UNCHANGED <<currentUrl, detectedIntent, submitted, crawlStrategy, logVars, normVars,
                   appVars, sideVars>>

\* bind:crawlStrategy: the user picks an option of the strategy select.
SelectStrategy ==
    /\ \E strategy \in Strategies :
           /\ strategy # crawlStrategy
           /\ crawlStrategy' = strategy
    /\ UNCHANGED <<currentUrl, detectedIntent, submitted, aiModel, logVars, normVars,
                   appVars, sideVars>>

NextForm == InputUrl \/ FormSubmit \/ FormClear \/ SelectAiModel \/ SelectStrategy

SpecForm == InitForm /\ [][NextForm]_vars

\* ------------------------------------------------------ result normalizer
\* The uniform error object built by callSmartBackend and handleSubmit.
ErrorResult(message) ==
    [status |-> "error", error |-> message, url |-> NullUrl,
     ai_synthesis |-> Undef, ai_analysis |-> Undef, extracted_content |-> Undef,
     content |-> Undef, stealth_features |-> Undef]

\* `HTTP error! status: ${response.status}`
HttpErrorMessage(resp) == "HTTP error! status: " \o ToString(resp.http)

\* The body of callSmartBackend with the fallback of the legacy fields
\* chosen by the caller: FallbackOf(resp) is what fills ai_analysis, content
\* and extracted_content when the response does not carry them.
normalizeWith(data, resp, fallback) ==
    IF resp.net = "fail" THEN ErrorResult("Failed to fetch")
    ELSE IF resp.json = "invalid" THEN ErrorResult("Unexpected token in JSON")
    ELSE IF resp.json = "null" THEN ErrorResult("Cannot read properties of null")
    ELSE IF ~ResponseOk(resp) \/ resp.status = "error"
         THEN ErrorResult(Or(resp.error, HttpErrorMessage(resp)))
    ELSE [status |-> "success",
          error |-> Undef,
          url |-> data.url,
          ai_synthesis |-> resp.ai_synthesis,
          content |-> Or(resp.content, fallback),
          extracted_content |-> Or(resp.extracted_content, fallback),
          ai_analysis |-> Or(resp.ai_analysis, fallback),
          stealth_features |-> Or(resp.stealth_features,
                                  IF data.stealth THEN "simulated" ELSE Undef)]

\* A plausible slip: the legacy fields fall back to extracted_content
\* instead of ai_synthesis.
callSmartBackendExtractedFallback(data, resp) ==
    normalizeWith(data, resp, resp.extracted_content)

\* A plausible slip: the legacy fields are copied through with no fallback.
callSmartBackendNoFallback(data, resp) ==
    normalizeWith(data, resp, Undef)

\* A plausible slip: a successful result carries the body's own status.
callSmartBackendBodyStatus(data, resp) ==
    LET result == normalizeWith(data, resp, resp.ai_synthesis)
    IN  IF result.status = "success" /\ Truthy(resp.status)
        THEN [result EXCEPT !.status = resp.status]
        ELSE result

\* callSmartBackend(data), given what the fetch produced.  Every exception
\* raised inside (fetch rejecting, response.json() rejecting, reading a field
\* of a null body) is caught and turned into an error object.
callSmartBackend(data, resp) ==
    normalizeWith(data, resp, resp.ai_synthesis)

\* A plausible slip: the section prefers extracted_content to ai_analysis.
ResultsAiTextContentFirst(res) ==
    IF Truthy(res.ai_analysis) \/ Truthy(res.extracted_content)
    THEN Or(res.extracted_content, res.ai_analysis)
    ELSE Undef

\* Results.svelte, "AI-Extracted Content": shown when ai_analysis or
\* extracted_content is truthy; the text is the first truthy of the two.
\* Undef stands for "section not rendered".
ResultsAiText(res) ==
    IF Truthy(res.ai_analysis) \/ Truthy(res.extracted_content)
    THEN Or(res.ai_analysis, res.extracted_content)
    ELSE Undef

\* Results.svelte, what of the section is on screen for a single (non-batch)
\* result: the section belongs to the last branch of
\*   {#if showRawData && isBatch} {:else if showRawData && isError}
\*   {:else if showRawData}
\* so it is rendered only in the raw-data view of a result that is not an
\* error.  showRawData is $state(false), toggled by a header button.
ResultsSection(res, showRawData) ==
    IF showRawData /\ res.status # "error" THEN ResultsAiText(res) ELSE Undef

\* Results.svelte and ResultsEnhanced.svelte:
\*   isError = results?.status === 'error'
\*   isBatch = results?.batch_results && results.batch_results.length > 0
isError(res) == ~IsNull(res) /\ res.status = "error"
isBatch(res) ==
    ~IsNull(res) /\ "batch_results" \in DOMAIN res /\ Len(res.batch_results) > 0

\* ResultsEnhanced.svelte, "AI_ANALYSIS": shown when any of ai_analysis,
\* ai_synthesis, extracted_content is truthy; the text is the first truthy.
ResultsEnhancedAiText(res) ==
    IF Truthy(res.ai_analysis) \/ Truthy(res.ai_synthesis)
          \/ Truthy(res.extracted_content)
    THEN Or(res.ai_analysis, Or(res.ai_synthesis, res.extracted_content))
    ELSE Undef

TextValues(t) == {Undef, "", t}

\* Every response the normalizer is exercised on.
Responses ==
    {NetworkFailure} \cup
    {MakeResponse("ok", http, "invalid", Undef, Undef, Undef, Undef, Undef, Undef, Undef) :
        http \in {200, 500}} \cup
    {MakeResponse("ok", http, "null", Undef, Undef, Undef, Undef, Undef, Undef, Undef) :
        http \in {200, 500}} \cup
    {MakeResponse("ok", http, "object", status, error, syn, ana, ext, con, sf) :
        http \in {200, 500},
        status \in {Undef, "success", "error", "completed"},
        error \in {Undef, "timeout"},
        syn \in TextValues("S"), ana \in TextValues("A"),
        ext \in TextValues("E"), con \in TextValues("C"),
        sf \in {Undef, "reported"}}

\* The request the normalizer specification sends.
NormData == handleSubmitData(<<"www">>, derivedIntent(<<"www">>), <<>>, "groq", "bfs")

InitNorm ==
    /\ terminalLogs = <<>>
    /\ now = 0
    /\ currentUrl = <<>>
    /\ detectedIntent = Null
    /\ submitted = Null
    /\ aiModel = "groq"
    /\ crawlStrategy = "bfs"
    /\ response \in Responses
    /\ normalized = Null
    /\ isProcessing = FALSE
    /\ results = Null
    /\ batchProgress = Null
    /\ runs = [r \in 1..MaxRuns |-> IdleRun]
    /\ HistoryClosed
    /\ NoKeyState
    /\ DatabaseUnchecked
    /\ ViewerClosed

\* One call of callSmartBackend on the response drawn.
Normalize ==
    /\ IsNull(normalized)
    /\ normalized' = callSmartBackend(NormData, response)
    /\ UNCHANGED <<response, logVars, formVars, appVars, sideVars>>

NextNorm == Normalize

SpecNorm == InitNorm /\ [][NextNorm]_vars

\* ------------------------------------------------------------ App.svelte
RECURSIVE Gcd(_, _)
Gcd(a, b) == IF b = 0 THEN a ELSE Gcd(b, a % b)

\* The number n / d as a fraction in lowest terms.
Frac(n, d) == LET g == Gcd(n, d) IN [num |-> n \div g, den |-> d \div g]

\* ((completed / total) * 100).toFixed(1): the decimal string with one digit
\* after the point, rounded to nearest.  (An exact tie needs a total that is
\* a multiple of 16; on such a tie toFixed rounds up.)
successRate(completed, total) ==
    LET tenths == (2000 * completed + total) \div (2 * total)
    IN  ToString(tenths \div 10) \o "." \o ToString(tenths % 10)

\* { ...base, ...update } on objects; spreading null contributes nothing.
Spread(base, update) ==
    LET keep == IF IsNull(base) THEN {} ELSE DOMAIN base
    IN  [k \in keep \cup DOMAIN update |->
            IF k \in DOMAIN update THEN update[k] ELSE base[k]]

Log(logs, message, level) == addTerminalLog(logs, message, level, now)

\* A plausible slip: the call is not awaited, so the loop goes on to its
\* pause with the request still outstanding.
issueBatchRequestNoAwait(run, url) ==
    [run EXCEPT !.pc = "bdelay", !.sent = Append(@, url)]

\* const result = await callSmartBackend(singleData): the request for url is
\* issued and the activation waits for it.
issueBatchRequest(run, url) ==
    [run EXCEPT !.pc = "bfetch", !.sent = Append(@, url)]

\* A plausible slip: the loop stops at the first failure.
loopContinuesUntilFailure(i, run) ==
    i < Len(run.data.urls) /\ run.failed = 0

\* for (let i = 0; i < urls.length; i++)
loopContinues(i, run) == i < Len(run.data.urls)

\* A plausible slip: a failed item is counted but not kept in batchResults
\* (what the loop's catch branch does).
batchRecordDropsFailures(run, result) ==
    IF result.status = "success"
    THEN [run EXCEPT !.batchResults = Append(@, result), !.completed = @ + 1]
    ELSE [run EXCEPT !.failed = @ + 1]

\* The loop body after the await: a success is pushed and counted in
\* completed, anything else is counted in failed and pushed as well.
batchRecord(run, result) ==
    IF result.status = "success"
    THEN [run EXCEPT !.batchResults = Append(@, result), !.completed = @ + 1]
    ELSE [run EXCEPT !.failed = @ + 1, !.batchResults = Append(@, result)]

\* A plausible slip: the progress counts the item being started as done.
batchIterationCountsCurrent(bp, logs, run, i) ==
    LET total == Len(run.data.urls)
        url == run.data.urls[i + 1]
    IN  [batchProgress |-> Spread(bp, [current |-> url, completed |-> i + 1,
                                       progress |-> Frac((i + 1) * 100, total)]),
         terminalLogs |-> Log(logs, "Processing target", "info"),
         run |-> issueBatchRequest([run EXCEPT !.i = i], url)]

\* The head of one loop iteration, up to the await: progress update, log
\* line, request for urls[i].  (i is 0-based as in the code.)
batchIteration(bp, logs, run, i) ==
    LET total == Len(run.data.urls)
        url == run.data.urls[i + 1]
    IN  [batchProgress |-> Spread(bp, [current |-> url, completed |-> i,
                                       progress |-> Frac(i * 100, total)]),
         terminalLogs |-> Log(logs, "Processing target", "info"),
         run |-> issueBatchRequest([run EXCEPT !.i = i], url)]

\* A plausible slip: the progress record is dropped when the loop has ended.
batchFinalProgressDiscarded(bp, run) == Null

\* "Final progress update": the progress record after the loop.
batchFinalProgress(bp, run) ==
    Spread(bp, [completed |-> run.completed, failed |-> run.failed,
                progress |-> Frac(100, 1), current |-> NullUrl])

\* A plausible slip: a batch in which nothing succeeded is reported as an
\* error.
batchAggregateErrorWhenAllFail(run) ==
    LET total == Len(run.data.urls)
    IN  [status |-> IF run.completed = 0 THEN "error" ELSE "success",
         batch_results |-> run.batchResults,
         batch_summary |-> [total |-> total,
                            completed |-> run.completed,
                            failed |-> run.failed,
                            success_rate |-> successRate(run.completed, total)]]

\* The results object built when the loop has ended.
batchAggregate(run) ==
    LET total == Len(run.data.urls)
    IN  [status |-> "success",
         batch_results |-> run.batchResults,
         batch_summary |-> [total |-> total,
                            completed |-> run.completed,
                            failed |-> run.failed,
                            success_rate |-> successRate(run.completed, total)]]

\* handleSubmit(formData) up to its first await, for activation r.
handleSubmitStart(r, data) ==
    LET logs == Log(Log(Log(terminalLogs, "Initiating neural crawl sequence...", "info"),
                        "Target acquired", "info"), "Protocol", "info")
        run == [IdleRun EXCEPT !.data = data]
    IN  /\ isProcessing' = TRUE
        /\ results' = Null
        /\ IF data.urls_set /\ Len(data.urls) > 1
           THEN \* handleBatchProcessing, entered with i = 0
                LET total == Len(data.urls)
                    bp == [total |-> total, completed |-> 0, current |-> NullUrl,
                           failed |-> 0, progress |-> Frac(0, total)]
                    it == batchIteration(bp, Log(logs, "Batch operation initialized", "info"),
                                         run, 0)
                IN  /\ batchProgress' = it.batchProgress
                    /\ terminalLogs' = it.terminalLogs
                    /\ runs' = [runs EXCEPT ![r] = it.run]
           ELSE /\ batchProgress' = Null
                /\ terminalLogs' = logs
                /\ runs' = [runs EXCEPT ![r] = [run EXCEPT !.pc = "fetch",
                                                           !.sent = Append(@, data.url)]]
        /\ UNCHANGED <<now, formVars, normVars, sideVars>>

\* The URLs a batch textarea holds.
BatchUrlTokens == {"a", "b"}
BatchLists == SeqsUpTo({<<t>> : t \in BatchUrlTokens}, MaxBatch)

\* What the user has typed when a submission is made in the application
\* specifications: a URL of general intent, or one of batch intent together
\* with the batch textarea.
SubmitInputs ==
    {handleSubmitData(<<"www">>, derivedIntent(<<"www">>), <<>>, "groq", "bfs")} \cup
    {handleSubmitData(<<"list">>, derivedIntent(<<"list">>), lines, "groq", "bfs") : lines \in BatchLists}

\* The backend's answers in the application specifications: a success, a
\* 2xx body with status "error", and a connection failure.
SuccessResponse ==
    MakeResponse("ok", 200, "object", "success", Undef, "S", Undef, Undef, Undef, Undef)
BodyErrorResponse ==
    MakeResponse("ok", 200, "object", "error", "timeout", Undef, Undef, Undef, Undef, Undef)
AppResponses == {SuccessResponse, BodyErrorResponse, NetworkFailure}

\* The requests a submission of data will issue.
RequestsOf(data) == IF data.urls_set /\ Len(data.urls) > 1 THEN Len(data.urls) ELSE 1

RECURSIVE RequestsPlanned(_)
RequestsPlanned(r) ==
    IF r = 0 THEN 0
    ELSE RequestsPlanned(r - 1) + (IF runs[r].pc = "idle" THEN 0 ELSE RequestsOf(runs[r].data))

\* The activation a new submission of data runs in: the first unused one,
\* while the request budget lasts.
FreeRun(r, data) ==
    /\ runs[r].pc = "idle"
    /\ \A q \in 1..(r - 1) : runs[q].pc # "idle"
    /\ RequestsPlanned(MaxRuns) + RequestsOf(data) <= MaxRequests

InitApp ==
    /\ terminalLogs = <<>>
    /\ now = 0
    /\ currentUrl = <<>>
    /\ detectedIntent = Null
    /\ submitted = Null
    /\ aiModel = "groq"
    /\ crawlStrategy = "bfs"
    /\ response = NoResponse
    /\ normalized = Null
    /\ isProcessing = FALSE
    /\ results = Null
    /\ batchProgress = Null
    /\ runs = [r \in 1..MaxRuns |-> IdleRun]
    /\ HistoryClosed
    /\ NoKeyState
    /\ DatabaseUnchecked
    /\ ViewerClosed

\* The INITIATE_CRAWL button: disabled={isProcessing}.
SubmitClick ==
    /\ ~isProcessing
    /\ \E r \in 1..MaxRuns, data \in SubmitInputs :
           FreeRun(r, data) /\ handleSubmitStart(r, data)

\* handleKeyDown: Enter in the URL field calls handleSubmit whatever
\* isProcessing is.
SubmitEnter ==
    \E r \in 1..MaxRuns, data \in SubmitInputs :
        FreeRun(r, data) /\ handleSubmitStart(r, data)

\* The single-URL branch of handleSubmit resumes with the backend's answer.
SingleResponse ==
    \E r \in 1..MaxRuns, resp \in AppResponses :
        /\ runs[r].pc = "fetch"
        /\ LET result == callSmartBackend(runs[r].data, resp)
           IN  /\ results' = result
               /\ terminalLogs' =
                      IF result.status = "success"
                      THEN Log(terminalLogs, "Neural extraction completed successfully", "success")
                      ELSE Log(terminalLogs, "Extraction failed", "error")
        /\ isProcessing' = FALSE
        /\ runs' = [runs EXCEPT ![r].pc = "done", ![r].answers = Append(@, resp)]
        /\ UNCHANGED <<batchProgress, now, formVars, normVars, sideVars>>

\* The batch loop resumes with the backend's answer for urls[i], records it
\* and starts the 500 ms pause.
BatchResponse ==
    \E r \in 1..MaxRuns, resp \in AppResponses :
        /\ runs[r].pc = "bfetch"
        /\ LET run == runs[r]
               singleData == [run.data EXCEPT !.url = run.data.urls[run.i + 1],
                                              !.urls_set = FALSE, !.urls = <<>>]
               result == callSmartBackend(singleData, resp)
               recorded == batchRecord(run, result)
           IN  /\ runs' = [runs EXCEPT ![r] = [recorded EXCEPT !.pc = "bdelay",
                                                              !.answers = Append(@, resp)]]
               /\ terminalLogs' =
                      IF result.status = "success"
                      THEN Log(terminalLogs, "Target extracted successfully", "success")
                      ELSE Log(terminalLogs, "Target failed", "error")
        /\ UNCHANGED <<isProcessing, results, batchProgress, now, formVars, normVars, sideVars>>

\* The pause ends: the loop either starts its next iteration or, after the
\* last URL, handleBatchProcessing finishes and handleSubmit's finally runs.
BatchDelay ==
    \E r \in 1..MaxRuns :
        /\ runs[r].pc = "bdelay"
        /\ LET run == runs[r]
               next == run.i + 1
           IN  IF loopContinues(next, run)
               THEN LET it == batchIteration(batchProgress, terminalLogs, run, next)
                    IN  /\ batchProgress' = it.batchProgress
                        /\ terminalLogs' = it.terminalLogs
                        /\ runs' = [runs EXCEPT ![r] = it.run]
                        /\ UNCHANGED <<isProcessing, results>>
               ELSE /\ batchProgress' = batchFinalProgress(batchProgress, run)
                    /\ results' = batchAggregate(run)
                    /\ terminalLogs' =
                           Log(terminalLogs, "Batch operation completed",
                               IF run.completed > run.failed THEN "success" ELSE "error")
                    /\ isProcessing' = FALSE
                    /\ runs' = [runs EXCEPT ![r].pc = "done", ![r].i = next]
        /\ UNCHANGED <<now, formVars, normVars, sideVars>>

\* A plausible slip: PURGE also cancels the batch that is running.
handleClearAbortsBatch ==
    /\ results' = Null
    /\ batchProgress' = Null
    /\ isProcessing' = FALSE
    /\ runs' = [r \in 1..MaxRuns |->
                  IF runs[r].pc \in {"bfetch", "bdelay"}
                  THEN [runs[r] EXCEPT !.pc = "done"] ELSE runs[r]]
    /\ UNCHANGED <<logVars, formVars, normVars, sideVars>>

\* PURGE: SearchInterface.handleClear calls onClear, App's handleClear.
handleClear ==
    /\ results' = Null
    /\ batchProgress' = Null
    /\ UNCHANGED <<isProcessing, runs, logVars, formVars, normVars, sideVars>>

NextApp ==
    \/ SubmitClick
    \/ SubmitEnter
    \/ SingleResponse
    \/ BatchResponse
    \/ BatchDelay
    \/ handleClear

SpecApp == InitApp /\ [][NextApp]_vars

\* The application with the terminal panel's clear button as well, under the
\* assumptions that every backend call of a batch is answered (fetch settles)
\* and that the 500 ms timer fires.
NextBatch == NextApp \/ ClearLogs

SpecBatch ==
    InitApp /\ [][NextBatch]_vars /\ WF_vars(BatchResponse) /\ WF_vars(BatchDelay)

\* ----------------------------------------------- AppEnhanced (part_001)
\* The parsed body of a response, as handed to handleCrawlComplete.
ResponseBody(resp) ==
    [status |-> resp.status, error |-> resp.error, url |-> NullUrl,
     ai_synthesis |-> resp.ai_synthesis, ai_analysis |-> resp.ai_analysis,
     extracted_content |-> resp.extracted_content, content |-> resp.content,
     stealth_features |-> resp.stealth_features]

\* handleCrawlComplete({ detail: result }): the component state after it.
\* It sets isProcessing, results, batchProgress and then logs by
\* results.status.  The optional log lines about database ids, page counts
\* and persistence depend on fields left out of the response.
handleCrawlComplete(logs, result) ==
    [isProcessing |-> FALSE,
     results |-> result,
     batchProgress |-> Null,
     terminalLogs |->
        IF result.status = "success"
        THEN LET l1 == Log(logs, "Crawl completed successfully", "success")
             IN  IF Truthy(result.ai_analysis) \/ Truthy(result.ai_synthesis)
                 THEN Log(l1, "AI analysis completed", "success")
                 ELSE l1
        ELSE Log(logs, "Crawl failed", "error")]

\* The AI text AppEnhanced has on screen after a submission answered by
\* resp: results is assigned only on a 2xx response whose body parses to an
\* object (handleCrawlComplete), whatever its status; ResultsEnhanced is
\* mounted under {#if results} and renders its AI section on errors too.
EnhancedShownAiText(resp) ==
    IF resp.net = "fail" \/ resp.json # "object" \/ ~ResponseOk(resp)
    THEN Undef
    ELSE ResultsEnhancedAiText(ResponseBody(resp))

\* handleCrawlSubmit(data) up to its await of fetch: handleCrawlStart and
\* the two log lines.
handleCrawlSubmitStart(r, data) ==
    /\ isProcessing' = TRUE
    /\ results' = Null
    /\ batchProgress' = Null
    /\ terminalLogs' = Log(Log(Log(terminalLogs, "Initializing crawl operation...", "info"),
                               "Starting crawl", "info"), "Mode, Intent", "info")
    /\ runs' = [runs EXCEPT ![r] = [IdleRun EXCEPT !.pc = "efetch", !.data = data,
                                                   !.sent = <<data.url>>]]
    /\ UNCHANGED <<now, formVars, normVars, sideVars>>

HttpErrorResponse ==
    MakeResponse("ok", 500, "object", "error", "timeout", Undef, Undef, Undef, Undef, Undef)
NullBodyResponse ==
    MakeResponse("ok", 200, "null", Undef, Undef, Undef, Undef, Undef, Undef, Undef)
InvalidBodyResponse ==
    MakeResponse("ok", 500, "invalid", Undef, Undef, Undef, Undef, Undef, Undef, Undef)

\* The answers of /api/crawl in the AppEnhanced specification.
EnhResponses ==
    {SuccessResponse, BodyErrorResponse, HttpErrorResponse, NullBodyResponse,
     InvalidBodyResponse, NetworkFailure}

InitEnh ==
    /\ terminalLogs = <<>>
    /\ now = 0
    /\ currentUrl = <<>>
    /\ detectedIntent = Null
    /\ submitted = Null
    /\ aiModel = "groq"
    /\ crawlStrategy = "bfs"
    /\ response = NoResponse
    /\ normalized = Null
    /\ isProcessing = FALSE
    /\ results = Null
    /\ batchProgress = Null
    /\ runs = [r \in 1..MaxRuns |-> IdleRun]
    /\ HistoryClosed
    /\ NoKeyState
    /\ DatabaseUnchecked
    /\ ViewerClosed

\* The activation a new submission under AppEnhanced runs in: the first
\* unused one.  handleCrawlSubmit issues one request whatever data holds.
FreeEnhRun(r) ==
    /\ runs[r].pc = "idle"
    /\ \A q \in 1..(r - 1) : runs[q].pc # "idle"

\* The INITIATE_CRAWL button of the search form mounted by AppEnhanced.
EnhSubmitClick ==
    /\ ~isProcessing
    /\ \E r \in 1..MaxRuns, data \in SubmitInputs :
           FreeEnhRun(r) /\ handleCrawlSubmitStart(r, data)

\* Enter in the URL field.
EnhSubmitEnter ==
    \E r \in 1..MaxRuns, data \in SubmitInputs :
        FreeEnhRun(r) /\ handleCrawlSubmitStart(r, data)

\* handleCrawlSubmit resumes with the outcome of fetch and response.json()
\* (nothing touches the component state between the two awaits).
\*   fetch or json() rejects                -> catch: log, isProcessing = false
\*   response.ok, body parsed               -> handleCrawlComplete, then one
\*                                             more success line; a null body
\*                                             makes handleCrawlComplete throw
\*                                             after its three assignments
\*   not response.ok, body parsed           -> log, isProcessing = false
EnhResponse ==
    \E r \in 1..MaxRuns, resp \in EnhResponses :
        /\ runs[r].pc = "efetch"
        /\ runs' = [runs EXCEPT ![r].pc = "done", ![r].answers = Append(@, resp)]
        /\ IF resp.net = "fail" \/ resp.json = "invalid"
           THEN /\ terminalLogs' = Log(terminalLogs, "Network error", "error")
                /\ isProcessing' = FALSE
                /\ UNCHANGED <<results, batchProgress>>
           ELSE IF ResponseOk(resp)
           THEN IF resp.json = "null"
                THEN /\ isProcessing' = FALSE
                     /\ results' = Null
                     /\ batchProgress' = Null
                     /\ terminalLogs' = Log(terminalLogs, "Network error", "error")
                ELSE LET after == handleCrawlComplete(terminalLogs, ResponseBody(resp))
                     IN  /\ isProcessing' = after.isProcessing
                         /\ results' = after.results
                         /\ batchProgress' = after.batchProgress
                         /\ terminalLogs' = Log(after.terminalLogs,
                                                "Crawl completed successfully", "success")
           ELSE /\ terminalLogs' = Log(terminalLogs, "Crawl failed", "error")
                /\ isProcessing' = FALSE
                /\ UNCHANGED <<results, batchProgress>>
        /\ UNCHANGED <<now, formVars, normVars, sideVars>>

\* PURGE under AppEnhanced: onClear is handleCrawlClear.
handleCrawlClear ==
    /\ Cardinality({k \in 1..Len(terminalLogs) :
                        terminalLogs[k].message = "Interface cleared"}) < MaxClears
    /\ results' = Null
    /\ batchProgress' = Null
    /\ terminalLogs' = Log(terminalLogs, "Interface cleared", "info")
    /\ UNCHANGED <<isProcessing, runs, now, formVars, normVars, sideVars>>

NextEnh ==
    \/ EnhSubmitClick
    \/ EnhSubmitEnter
    \/ EnhResponse
    \/ handleCrawlClear

SpecEnh == InitEnh /\ [][NextEnh]_vars

\* ----------------------------------------------------- CrawlHistory
\* What one fetch of /api/results can produce.  net and json are as for the
\* crawl endpoints; for an object body: status, error (Undef: absent),
\* results (the listed rows), and pagination (FALSE: the body has no
\* pagination object) with its page and pages.
MakeHistResponse(net, json, status, message, rows, pagination, page, pages) ==
    [net |-> net, json |-> json, status |-> status, error |-> message,
     results |-> rows, pagination |-> pagination, page |-> page, pages |-> pages]

HistNetworkFailure == MakeHistResponse("fail", "invalid", Undef, Undef, <<>>, FALSE, 0, 0)
HistInvalidBody == MakeHistResponse("ok", "invalid", Undef, Undef, <<>>, FALSE, 0, 0)
HistNullBody == MakeHistResponse("ok", "null", Undef, Undef, <<>>, FALSE, 0, 0)
NoHistResponse == MakeHistResponse("none", "invalid", Undef, Undef, <<>>, FALSE, 0, 0)

\* The rows of page `page` of a listing of `pages` pages.
HistRows(page, pages) == <<"row" \o ToString(page) \o "of" \o ToString(pages)>>

\* Success bodies of the documented shape.
HistSuccesses ==
    {MakeHistResponse("ok", "object", "success", Undef, HistRows(where[1], where[2]),
                      TRUE, where[1], where[2]) :
        where \in {w \in (1..MaxPages) \X (1..MaxPages) : w[1] <= w[2]}}

\* A body with status success and results but no pagination object.
HistSuccessesNoPagination ==
    {MakeHistResponse("ok", "object", "success", Undef, <<"rows">>, FALSE, 0, 0)}

\* Bodies whose status is not success, with and without a message.
HistErrors ==
    {MakeHistResponse("ok", "object", "error", message, <<>>, FALSE, 0, 0) :
        message \in {Undef, "db down"}}

HistResponses ==
    {HistNetworkFailure, HistInvalidBody, HistNullBody} \cup HistSuccesses
        \cup HistSuccessesNoPagination \cup HistErrors

\* A plausible slip: every filter is appended, set or not.
fetchHistoryParamsAppendAll(page, query, mode, status) ==
    << <<"page", ToString(page)>>, <<"limit", "10">>, <<"include_content", "false">>,
       <<"query", query>>, <<"mode", mode>>, <<"status", status>> >>

\* The URLSearchParams built by fetchHistory, as the list of its (name, value)
\* pairs in order.
fetchHistoryParams(page, query, mode, status) ==
    LET base == << <<"page", ToString(page)>>, <<"limit", "10">>,
                   <<"include_content", "false">> >>
        withQuery == IF Truthy(query) THEN Append(base, <<"query", query>>) ELSE base
        withMode == IF Truthy(mode) THEN Append(withQuery, <<"mode", mode>>) ELSE withQuery
    IN  IF Truthy(status) THEN Append(withMode, <<"status", status>>) ELSE withMode

\* fetchHistory(page, query, mode, status) up to its await of fetch: loading
\* and error are reset and the request goes out.  Each activation records who
\* called it (by), the query string sent, and whether another activation was
\* in flight.
fetchHistoryStart(by, page, query, mode, status) ==
    /\ Len(fetches) < MaxFetches
    /\ loading' = TRUE
    /\ histError' = Undef
    /\ fetches' = Append(fetches,
          [pc |-> "wait", by |-> by,
           params |-> fetchHistoryParams(page, query, mode, status),
           overlapped |-> \E k \in 1..Len(fetches) : fetches[k].pc = "wait",
           answer |-> NoHistResponse])

\* A plausible slip: a new page of results is appended to the rows on display.
fetchHistoryRowsMerged(old, rows) == old \o rows

\* results = data.results
fetchHistoryRows(old, rows) == rows

\* fetchHistory from the answer of fetch to its end: the component state it
\* leaves.  Reading a field of a null body, or data.pagination.page when the
\* body has no pagination, throws inside the try; the catch stores the message
\* and the finally clears loading.
fetchHistoryResume(resp) ==
    LET failed(message) ==
            [results |-> histResults, currentPage |-> currentPage,
             totalPages |-> totalPages, error |-> message, loading |-> FALSE]
    IN  IF resp.net = "fail" THEN failed("Failed to fetch")
        ELSE IF resp.json = "invalid" THEN failed("Unexpected token in JSON")
        ELSE IF resp.json = "null" THEN failed("Cannot read properties of null")
        ELSE IF resp.status = "success"
             THEN IF resp.pagination
                  THEN [results |-> fetchHistoryRows(histResults, resp.results),
                        currentPage |-> resp.page,
                        totalPages |-> resp.pages,
                        error |-> histError, loading |-> FALSE]
                  ELSE [failed("Cannot read properties of undefined")
                            EXCEPT !.results = fetchHistoryRows(histResults, resp.results)]
        ELSE failed(Or(resp.error, "Failed to fetch history"))

\* The filter values the user can enter or select.
QueryValues == {"", "cats"}
ModeValues == {"", "smart"}
StatusValues == {"", "failed"}

Max(a, b) == IF a >= b THEN a ELSE b
Min(a, b) == IF a <= b THEN a ELSE b

\* A plausible slip: the first button is currentPage - 2, not clamped to 1.
pageButtonsNoClamp(page, pages) ==
    {(page - 2) + i : i \in 0..(Min(5, pages) - 1)} \cap {p \in Int : p <= pages}

\* The page-number buttons: Array.from({length: Math.min(5, totalPages)},
\* (_, i) => Math.max(1, currentPage - 2) + i).filter(p => p <= totalPages)
pageButtons(page, pages) ==
    {Max(1, page - 2) + i : i \in 0..(Min(5, pages) - 1)} \cap {p \in Int : p <= pages}

InitHist ==
    /\ terminalLogs = <<>>
    /\ now = 0
    /\ currentUrl = <<>>
    /\ detectedIntent = Null
    /\ submitted = Null
    /\ aiModel = "groq"
    /\ crawlStrategy = "bfs"
    /\ response = NoResponse
    /\ normalized = Null
    /\ isProcessing = FALSE
    /\ results = Null
    /\ batchProgress = Null
    /\ runs = [r \in 1..MaxRuns |-> IdleRun]
    /\ HistoryClosed
    /\ NoKeyState
    /\ DatabaseUnchecked
    /\ ViewerClosed

histFrame == <<logVars, formVars, normVars, appVars, keyVars, dbVars, modalVars>>

\* $effect: the modal becomes visible and fetchHistory() is called with its
\* default arguments.  (fetchStatistics() is called too; the statistics panel
\* is left out.)
OpenHistory ==
    /\ ~visible
    /\ visible' = TRUE
    /\ fetchHistoryStart("open", 1, "", "", "")
    /\ UNCHANGED <<histResults, currentPage, totalPages, searchQuery, selectedMode,
                   selectedStatus, histFrame>>

\* closeHistory(): the parent sets visible to false; the component stays
\* mounted and keeps its state.
CloseHistory ==
    /\ visible
    /\ visible' = FALSE
    /\ UNCHANGED <<loading, histError, histResults, currentPage, totalPages, searchQuery,
                   selectedMode, selectedStatus, fetches, histFrame>>

\* bind:value={searchQuery}
EditSearchQuery ==
    /\ visible
    /\ \E q \in QueryValues : q # searchQuery /\ searchQuery' = q
    /\ UNCHANGED <<visible, loading, histError, histResults, currentPage, totalPages,
                   selectedMode, selectedStatus, fetches, histFrame>>

\* bind:value={selectedMode}
SelectMode ==
    /\ visible
    /\ \E m \in ModeValues : m # selectedMode /\ selectedMode' = m
    /\ UNCHANGED <<visible, loading, histError, histResults, currentPage, totalPages,
                   searchQuery, selectedStatus, fetches, histFrame>>

\* bind:value={selectedStatus}
SelectStatus ==
    /\ visible
    /\ \E st \in StatusValues : st # selectedStatus /\ selectedStatus' = st
    /\ UNCHANGED <<visible, loading, histError, histResults, currentPage, totalPages,
                   searchQuery, selectedMode, fetches, histFrame>>

\* handleSearch(): the SEARCH button, or Enter in the search field.
handleSearch ==
    /\ visible
    /\ fetchHistoryStart("search", 1, searchQuery, selectedMode, selectedStatus)
    /\ UNCHANGED <<visible, histResults, currentPage, totalPages, searchQuery,
                   selectedMode, selectedStatus, histFrame>>

\* goToPage(page): PREV, NEXT or a page-number button; the pagination bar is
\* rendered when totalPages > 1, PREV is disabled on the first page and NEXT
\* on the last.
goToPage ==
    /\ visible
    /\ totalPages > 1
    /\ \E page \in pageButtons(currentPage, totalPages)
                     \cup (IF currentPage <= 1 THEN {} ELSE {currentPage - 1})
                     \cup (IF currentPage >= totalPages THEN {} ELSE {currentPage + 1}) :
           fetchHistoryStart("page", page, searchQuery, selectedMode, selectedStatus)
    /\ UNCHANGED <<visible, histResults, currentPage, totalPages, searchQuery,
                   selectedMode, selectedStatus, histFrame>>

\* An activation of fetchHistory resumes with the outcome of fetch and
\* response.json().  Its params object is gone when it returns; what it
\* received is kept.
HistoryResponse ==
    \E f \in 1..Len(fetches), resp \in HistResponses :
        /\ fetches[f].pc = "wait"
        /\ LET after == fetchHistoryResume(resp)
           IN  /\ histResults' = after.results
               /\ currentPage' = after.currentPage
               /\ totalPages' = after.totalPages
               /\ histError' = after.error
               /\ loading' = after.loading
        /\ fetches' = [fetches EXCEPT ![f].pc = "done", ![f].params = <<>>,
                                      ![f].answer = resp]
        /\ UNCHANGED <<visible, searchQuery, selectedMode, selectedStatus, histFrame>>

NextHist ==
    \/ OpenHistory
    \/ CloseHistory
    \/ EditSearchQuery
    \/ SelectMode
    \/ SelectStatus
    \/ handleSearch
    \/ goToPage
    \/ HistoryResponse

SpecHist == InitHist /\ [][NextHist]_vars

\* The pagination bar on its own: the history is open on some page of a
\* listing of up to MaxTotalPages pages, as the answer to the fetch made on
\* opening left it; the user clicks through the pages and the backend serves
\* the page asked for.
PageBody(page, pages) ==
    MakeHistResponse("ok", "object", "success", Undef, HistRows(page, pages), TRUE, page, pages)

\* The page a fetchHistory activation asked for: the value of its page
\* parameter, parsed.
RequestedPage(params) == CHOOSE p \in 1..(MaxTotalPages + 1) : ToString(p) = params[1][2]

InitPages ==
    /\ terminalLogs = <<>>
    /\ now = 0
    /\ currentUrl = <<>>
    /\ detectedIntent = Null
    /\ submitted = Null
    /\ aiModel = "groq"
    /\ crawlStrategy = "bfs"
    /\ response = NoResponse
    /\ normalized = Null
    /\ isProcessing = FALSE
    /\ results = Null
    /\ batchProgress = Null
    /\ runs = [r \in 1..MaxRuns |-> IdleRun]
    /\ visible = TRUE
    /\ loading = FALSE
    /\ histError = Undef
    /\ totalPages \in 2..MaxTotalPages
    /\ currentPage \in 1..totalPages
    /\ histResults = HistRows(currentPage, totalPages)
    /\ searchQuery = ""
    /\ selectedMode = ""
    /\ selectedStatus = ""
    /\ fetches = << [pc |-> "done", by |-> "open", params |-> <<>>, overlapped |-> FALSE,
                     answer |-> PageBody(currentPage, totalPages)] >>
    /\ NoKeyState
    /\ DatabaseUnchecked
    /\ ViewerClosed

\* An activation of fetchHistory resumes with the page it asked for.
PageResponse ==
    \E f \in 1..Len(fetches) :
        /\ fetches[f].pc = "wait"
        /\ LET resp == PageBody(RequestedPage(fetches[f].params), totalPages)
               after == fetchHistoryResume(resp)
           IN  /\ histResults' = after.results
               /\ currentPage' = after.currentPage
               /\ totalPages' = after.totalPages
               /\ histError' = after.error
               /\ loading' = after.loading
               /\ fetches' = [fetches EXCEPT ![f].pc = "done", ![f].params = <<>>,
                                             ![f].answer = resp]
        /\ UNCHANGED <<visible, searchQuery, selectedMode, selectedStatus, histFrame>>

NextPages == goToPage \/ PageResponse

SpecPages == InitPages /\ [][NextPages]_vars

\* --------------------------------------- page load (App, AppEnhanced)
\* JS truthiness of a key: null and the empty string are falsy.
KeyTruthy(key) == key # NullKey /\ Len(key) > 0

\* What local storage can hold when the page loads: nothing, or a key stored
\* by an earlier visit (always trimmed and non-blank).
StoredKeys == {NullKey, <<"k">>}

\* What the user can answer to prompt(): Cancel (null), nothing, a blank, a
\* key with blanks around it, a bare key.
PromptAnswers == {NullKey, <<>>, <<" ">>, <<" ", "k", " ">>, <<"k2">>}

\* A plausible slip: the effect asks whenever there is no key, without
\* looking at hasPromptedForApiKey.
shouldPromptIgnoringFlag(prompted, key) == ~KeyTruthy(key)

\* if (!hasPromptedForApiKey && !apiKey)
shouldPrompt(prompted, key) == ~prompted /\ ~KeyTruthy(key)

\* The value of the `database` field of a health body: absent, or a JSON
\* value of some kind.  A string is a line of tokens ("unhealthy" is the two
\* tokens "un", "healthy"); an array is the list of its elements.
DatabaseValue(kind, text) == [kind |-> kind, text |-> text]

DatabaseValues ==
    {DatabaseValue("absent", <<>>), DatabaseValue("null", <<>>),
     DatabaseValue("number", <<"1">>), DatabaseValue("array", <<"healthy">>),
     DatabaseValue("array", <<"down">>)}
    \cup {DatabaseValue("string", text) :
            text \in {<<>>, <<"healthy">>, <<"un", "healthy">>,
                      <<"postgres", "healthy">>, <<"down">>}}

\* What one fetch of /api/health can produce.
MakeHealthResponse(net, json, database) ==
    [net |-> net, json |-> json, database |-> database]

HealthResponses ==
    {MakeHealthResponse("fail", "invalid", DatabaseValue("absent", <<>>)),
     MakeHealthResponse("ok", "invalid", DatabaseValue("absent", <<>>)),
     MakeHealthResponse("ok", "null", DatabaseValue("absent", <<>>))}
    \cup {MakeHealthResponse("ok", "object", database) : database \in DatabaseValues}

\* JS truthiness of the database field.
DatabaseTruthy(database) ==
    CASE database.kind \in {"absent", "null"} -> FALSE
      [] database.kind = "string" -> Len(database.text) > 0
      [] OTHER -> TRUE

\* data.database.includes('healthy'): the substring test of a string, the
\* membership test of an array.
Includes(text, token) == \E k \in 1..Len(text) : text[k] = token

\* A plausible slip: the field is compared with 'healthy' instead of being
\* searched for it.
checkDatabaseStatusExactMatch(resp) ==
    IF resp.net = "fail" \/ resp.json # "object" THEN "error"
    ELSE IF ~DatabaseTruthy(resp.database) THEN "unhealthy"
    ELSE IF resp.database.kind \notin {"string", "array"} THEN "error"
    ELSE IF resp.database.text = <<"healthy">> THEN "healthy" ELSE "unhealthy"

\* checkDatabaseStatus(), given what the fetch produced: the databaseStatus
\* it assigns.  fetch or response.json() rejecting, a null body, and a truthy
\* database value that has no includes method all end in the catch.
checkDatabaseStatus(resp) ==
    IF resp.net = "fail" \/ resp.json # "object" THEN "error"
    ELSE IF ~DatabaseTruthy(resp.database) THEN "unhealthy"
    ELSE IF resp.database.kind \notin {"string", "array"} THEN "error"
    ELSE IF Includes(resp.database.text, "healthy") THEN "healthy" ELSE "unhealthy"

\* The banner's VIEW_HISTORY button: {#if databaseStatus === 'healthy'}.
historyButtonOffered == databaseStatus = "healthy"

InitLoad ==
    /\ terminalLogs = <<>>
    /\ now = 0
    /\ currentUrl = <<>>
    /\ detectedIntent = Null
    /\ submitted = Null
    /\ aiModel = "groq"
    /\ crawlStrategy = "bfs"
    /\ response = NoResponse
    /\ normalized = Null
    /\ isProcessing = FALSE
    /\ results = Null
    /\ batchProgress = Null
    /\ runs = [r \in 1..MaxRuns |-> IdleRun]
    /\ HistoryClosed
    /\ DatabaseUnchecked
    /\ ViewerClosed
    /\ storedKey \in StoredKeys
    /\ apiKey = (IF KeyTruthy(storedKey) THEN storedKey ELSE NullKey)
    /\ hasPromptedForApiKey = FALSE
    /\ effectDue = TRUE
    /\ promptTimer = 0
    /\ prompts = <<>>

loadFrame == <<now, formVars, normVars, appVars, histVars, modalVars>>

\* One run of AppEnhanced's $effect: the prompt is scheduled if due, and
\* checkDatabaseStatus() is called and waits for its fetch.  The effect reads
\* hasPromptedForApiKey, so writing it schedules the effect once more.
\* (App.svelte's effect is the same without the health check.)
LoadEffect ==
    /\ effectDue
    /\ IF shouldPrompt(hasPromptedForApiKey, apiKey)
       THEN /\ hasPromptedForApiKey' = TRUE
            /\ promptTimer' = promptTimer + 1
            /\ effectDue' = TRUE
       ELSE /\ effectDue' = FALSE
            /\ UNCHANGED <<hasPromptedForApiKey, promptTimer>>
    /\ healthChecks' = Append(healthChecks, [pc |-> "wait"])
    /\ UNCHANGED <<storedKey, apiKey, prompts, databaseStatus, terminalLogs, loadFrame>>

\* The 500 ms timer of promptForApiKey fires: prompt() is shown and answered.
\* Whether assigning apiKey schedules the effect again depends on whether the
\* effect's last run read apiKey; both are allowed.
PromptFires ==
    /\ promptTimer > 0
    /\ promptTimer' = promptTimer - 1
    /\ \E key \in PromptAnswers :
           /\ prompts' = Append(prompts, key)
           /\ IF KeyTruthy(key) /\ KeyTruthy(Trim(key))
              THEN /\ apiKey' = Trim(key)
                   /\ storedKey' = Trim(key)
                   /\ terminalLogs' = Log(terminalLogs, "API key configured successfully",
                                          "success")
                   /\ effectDue' \in {effectDue, TRUE}
              ELSE /\ terminalLogs' = Log(terminalLogs, "Basic extraction mode enabled",
                                          "info")
                   /\ UNCHANGED <<apiKey, storedKey, effectDue>>
    /\ UNCHANGED <<hasPromptedForApiKey, databaseStatus, healthChecks, loadFrame>>

\* An activation of checkDatabaseStatus resumes with the outcome of fetch and
\* response.json().
HealthResponse ==
    \E h \in 1..Len(healthChecks), resp \in HealthResponses :
        /\ healthChecks[h].pc = "wait"
        /\ healthChecks' = [healthChecks EXCEPT ![h] = [pc |-> "done", answer |-> resp]]
        /\ databaseStatus' = checkDatabaseStatus(resp)
        /\ terminalLogs' =
              Log(terminalLogs, "Database connection",
                  CASE checkDatabaseStatus(resp) = "healthy" -> "success"
                    [] checkDatabaseStatus(resp) = "unhealthy" -> "warning"
                    [] OTHER -> "error")
        /\ UNCHANGED <<keyVars, loadFrame>>

NextLoad == LoadEffect \/ PromptFires \/ HealthResponse

SpecLoad == InitLoad /\ [][NextLoad]_vars

\* ------------------------------------------ AppEnhanced: the two modals
\* showHistory is the visible prop of CrawlHistory, showResultViewer that of
\* ResultViewer.  Both modals are always mounted; what each does when its
\* visible prop turns true (its own $effect and fetch) is not part of the
\* handlers below.

\* The ids a viewResult event can carry: result.id of the history row
\* clicked (absent on a row without one), or the id of the result on screen.
ResultIds == {"r1", "r2"}

\* The lines the modal handlers have written to the log.
ModalLogs ==
    Cardinality({k \in 1..Len(terminalLogs) :
                    terminalLogs[k].message \in {"Opening crawl history...", "Loading result"}})

\* The page once loaded with a key in local storage (no prompt) and the
\* health check answered healthy, which puts VIEW_HISTORY in the banner.
InitModal ==
    /\ now = 0
    /\ currentUrl = <<>>
    /\ detectedIntent = Null
    /\ submitted = Null
    /\ aiModel = "groq"
    /\ crawlStrategy = "bfs"
    /\ response = NoResponse
    /\ normalized = Null
    /\ isProcessing = FALSE
    /\ results = Null
    /\ batchProgress = Null
    /\ runs = [r \in 1..MaxRuns |-> IdleRun]
    /\ HistoryClosed
    /\ ViewerClosed
    /\ storedKey = <<"k">>
    /\ apiKey = storedKey
    /\ hasPromptedForApiKey = FALSE
    /\ effectDue = FALSE
    /\ promptTimer = 0
    /\ prompts = <<>>
    /\ \E resp \in {h \in HealthResponses : checkDatabaseStatus(h) = "healthy"} :
           healthChecks = <<[pc |-> "done", answer |-> resp]>>
    /\ databaseStatus = "healthy"
    /\ terminalLogs = addTerminalLog(<<>>, "Database connection", "success", 0)

modalFrame == <<now, formVars, normVars, appVars, keyVars, dbVars>>

\* handleViewHistory(): the banner's VIEW_HISTORY button, or the viewHistory
\* event of ResultsEnhanced (its HISTORY button, there while results is set).
handleViewHistory ==
    /\ historyButtonOffered \/ ~IsNull(results)
    /\ ModalLogs < MaxModalLogs
    /\ visible' = TRUE
    /\ terminalLogs' = Log(terminalLogs, "Opening crawl history...", "info")
    /\ UNCHANGED <<modalVars, loading, histError, histResults, currentPage, totalPages,
                   searchQuery, selectedMode, selectedStatus, fetches, modalFrame>>

\* handleCloseHistory(): the close event of CrawlHistory, whose button is
\* rendered while the modal is visible.
handleCloseHistory ==
    /\ visible
    /\ visible' = FALSE
    /\ UNCHANGED <<modalVars, terminalLogs, loading, histError, histResults, currentPage,
                   totalPages, searchQuery, selectedMode, selectedStatus, fetches, modalFrame>>

\* handleViewResult(event): the viewResult event of a history row (any
\* result.id, absent included) or of ResultsEnhanced (a truthy id only).  The
\* three assignments come first; selectedResultId.slice throws on an absent
\* id, after them and before the log line.
handleViewResult ==
    /\ ModalLogs < MaxModalLogs
    /\ \E id \in ResultIds \cup {Undef} :
           /\ visible \/ (~IsNull(results) /\ Truthy(id))
           /\ selectedResultId' = id
           /\ terminalLogs' = IF id = Undef THEN terminalLogs
                              ELSE Log(terminalLogs, "Loading result", "info")
    /\ showResultViewer' = TRUE
    /\ visible' = FALSE
    /\ UNCHANGED <<loading, histError, histResults, currentPage, totalPages, searchQuery,
                   selectedMode, selectedStatus, fetches, modalFrame>>

\* handleCloseResultViewer(): the close event of ResultViewer.
handleCloseResultViewer ==
    /\ showResultViewer
    /\ showResultViewer' = FALSE
    /\ selectedResultId' = Undef
    /\ UNCHANGED <<terminalLogs, histVars, modalFrame>>

NextModal ==
    \/ handleViewHistory
    \/ handleCloseHistory
    \/ handleViewResult
    \/ handleCloseResultViewer

SpecModal == InitModal /\ [][NextModal]_vars

\* ------------------------------------------------------------- claims
\* A URL "fails" when its request ends in an error-status result or an
\* exception: no connection, a body that cannot be used, a non-2xx status,
\* or a body whose status is "error".
ResponseFails(resp) ==
    \/ resp.net = "fail"
    \/ resp.json # "object"
    \/ ~ResponseOk(resp)
    \/ resp.status = "error"

FailureCount(answers) == Cardinality({k \in 1..Len(answers) : ResponseFails(answers[k])})

StatusCount(list, status) == Cardinality({k \in 1..Len(list) : list[k].status = status})

\* An activation that is running, or has run, the batch loop.
IsBatchRun(run) ==
    run.pc # "idle" /\ run.data.urls_set /\ Len(run.data.urls) > 1

\* rate is the percentage done / total * 100 written with one decimal and
\* rounded to nearest.
IsOneDecimalPercentage(rate, done, total) ==
    \E t \in 0..1000 :
        /\ rate = ToString(t \div 10) \o "." \o ToString(t % 10)
        /\ 2 * (1000 * done - t * total) <= total
        /\ 2 * (t * total - 1000 * done) <= total

\* C1: when a batch of N >= 2 URLs of which M failed (at any positions) ends,
\* results.batch_summary has total N, failed M, completed N - M and
\* success_rate (N - M) / N * 100 to one decimal ("50.0" for N = 2, M = 1), and
\* results.batch_results has N entries, N - M with status success and M with
\* status error.
C1_BatchSummary ==
    [][\A r \in 1..MaxRuns :
          (runs[r].pc = "bdelay" /\ runs'[r].pc = "done") =>
              LET N == Len(runs[r].data.urls)
                  M == FailureCount(runs[r].answers)
                  summary == results'.batch_summary
              IN  /\ N >= 2
                  /\ Len(runs[r].answers) = N
                  /\ summary.total = N
                  /\ summary.failed = M
                  /\ summary.completed = N - M
                  /\ IsOneDecimalPercentage(summary.success_rate, N - M, N)
                  /\ (N = 2 /\ M = 1) => summary.success_rate = "50.0"
                  /\ Len(results'.batch_results) = N
                  /\ StatusCount(results'.batch_results, "success") = N - M
                  /\ StatusCount(results'.batch_results, "error") = M]_vars

\* C1 witness: a batch of three has ended whose first and last URLs failed
\* and whose middle one succeeded, and its aggregate is on display.
C1_Witness ==
    \E r \in 1..MaxRuns :
        /\ runs[r].pc = "done"
        /\ IsBatchRun(runs[r])
        /\ Len(runs[r].answers) = 3
        /\ ResponseFails(runs[r].answers[1])
        /\ ~ResponseFails(runs[r].answers[2])
        /\ ResponseFails(runs[r].answers[3])
        /\ ~IsNull(results)
        /\ "batch_summary" \in DOMAIN results
        /\ results.batch_summary.failed = 2
        /\ results.batch_summary.success_rate = "33.3"

\* C2: a failing URL never aborts a batch and nothing is retried: the
\* requests a batch has issued are exactly the first URLs of its list, in
\* order and once each, whatever came back for the earlier ones; every answer
\* is counted (in completed or failed) before the next request goes out; and
\* a batch that has ended has requested every URL of its list.
C2_NoAbortNoRetry ==
    \A r \in 1..MaxRuns :
        IsBatchRun(runs[r]) =>
            LET run == runs[r]
                urls == run.data.urls
            IN  /\ Len(run.sent) <= Len(urls)
                /\ run.sent = SubSeq(urls, 1, Len(run.sent))
                /\ run.pc = "bfetch" => Len(run.sent) = run.i + 1 /\ Len(run.answers) = run.i
                /\ run.pc = "bdelay" => Len(run.sent) = run.i + 1 /\ Len(run.answers) = run.i + 1
                /\ run.pc = "done" => run.sent = urls /\ Len(run.answers) = Len(urls)
                /\ run.failed = FailureCount(run.answers)
                /\ run.completed + run.failed = Len(run.answers)

\* C2 witness: a batch of three has ended in which every URL failed, by an
\* error-status body and by a rejected fetch, and all three were requested.
C2_Witness ==
    \E r \in 1..MaxRuns :
        /\ runs[r].pc = "done"
        /\ IsBatchRun(runs[r])
        /\ Len(runs[r].sent) = 3
        /\ runs[r].failed = 3
        /\ runs[r].answers[1] = BodyErrorResponse
        /\ runs[r].answers[2] = NetworkFailure

\* C3: the terminal log never holds more than 50 entries, and an append made
\* while 50 entries are present evicts exactly the oldest one: the other 49
\* keep their order and the new entry (stamped with the current clock) is last.
C3_LogCappedOldestEvicted ==
    /\ [](Len(terminalLogs) <= MaxLogs)
    /\ [][(Len(terminalLogs) = MaxLogs /\ now' # now) =>
            /\ Len(terminalLogs') = MaxLogs
            /\ \A k \in 1..(MaxLogs - 1) : terminalLogs'[k] = terminalLogs[k + 1]
            /\ terminalLogs'[MaxLogs].timestamp = now]_vars

\* C3 witness: the log is full and its oldest entry is no longer the first
\* one ever appended, so at least one eviction has taken place.
C3_Witness ==
    /\ Len(terminalLogs) = MaxLogs
    /\ terminalLogs[1].timestamp > 0
    /\ terminalLogs[MaxLogs].timestamp = terminalLogs[1].timestamp + MaxLogs - 1

\* The requests an activation has issued that have not been answered yet.
InFlight(run) == Len(run.sent) - Len(run.answers)

RECURSIVE TotalInFlight(_)
TotalInFlight(r) == IF r = 0 THEN 0 ELSE TotalInFlight(r - 1) + InFlight(runs[r])

\* C4 as stated: at no time are two requests issued by the UI in flight.
C4_Original == TotalInFlight(MaxRuns) <= 1

\* C4, amended: each activation of the submit handler has at most one
\* request in flight, and a batch pauses and issues its next request only
\* after the previous one has been answered; requests of different
\* activations may overlap.
C4_SerialWithinActivation ==
    \A r \in 1..MaxRuns :
        /\ InFlight(runs[r]) \in {0, 1}
        /\ runs[r].pc \in {"fetch", "bfetch", "efetch"} <=> InFlight(runs[r]) = 1

\* C4 witness: a batch is waiting for the answer to its second request while
\* another submission's request is in flight as well.
C4_Witness ==
    \E r, q \in 1..MaxRuns :
        /\ r # q
        /\ runs[r].pc = "bfetch" /\ runs[r].i = 1 /\ InFlight(runs[r]) = 1
        /\ runs[q].pc = "fetch" /\ InFlight(runs[q]) = 1

\* The entries a step has appended to the terminal log (the log is far from
\* its cap in the application specifications).
Appended(before, after) == SubSeq(after, Len(before) + 1, Len(after))

\* C5 as stated: a failed single-URL submission leaves results holding an
\* object with status "error" and an error message, appends an error-level
\* log entry and returns (no exception escapes), in App and in AppEnhanced.
C5_Original ==
    [][\A r \in 1..MaxRuns :
          (runs[r].pc \in {"fetch", "efetch"} /\ runs'[r].pc = "done"
             /\ ResponseFails(runs'[r].answers[1])) =>
              /\ ~IsNull(results')
              /\ results'.status = "error"
              /\ Truthy(results'.error)
              /\ \E k \in 1..Len(Appended(terminalLogs, terminalLogs')) :
                     Appended(terminalLogs, terminalLogs')[k].level = "error"
              /\ ~isProcessing']_vars

\* What a display section shows for a text: the text when it is truthy,
\* nothing otherwise.
Shown(text) == IF Truthy(text) THEN text ELSE Undef

NormalizedSuccess == ~IsNull(normalized) /\ normalized.status = "success"

\* C6 as stated: a successful response carrying both ai_synthesis and
\* extracted_content is normalized to ai_analysis = content = ai_synthesis.
C6_Original ==
    (NormalizedSuccess /\ Truthy(response.ai_synthesis)
        /\ Truthy(response.extracted_content)) =>
        /\ normalized.ai_analysis = response.ai_synthesis
        /\ normalized.content = response.ai_synthesis

\* C6, amended: for a successful response carrying both ai_synthesis and
\* extracted_content, the normalized ai_analysis is the response's own
\* ai_analysis when that is non-empty and its ai_synthesis otherwise, and the
\* normalized content is the response's own content when that is non-empty
\* and its ai_synthesis otherwise.
C6_SynthesisFillsGaps ==
    (NormalizedSuccess /\ Truthy(response.ai_synthesis)
        /\ Truthy(response.extracted_content)) =>
        /\ normalized.ai_analysis =
              (IF Truthy(response.ai_analysis) THEN response.ai_analysis
               ELSE response.ai_synthesis)
        /\ normalized.content =
              (IF Truthy(response.content) THEN response.content
               ELSE response.ai_synthesis)

\* C6 witness: a response with ai_synthesis and extracted_content but neither
\* ai_analysis nor content has been normalized, and both fields carry the
\* synthesis.
C6_Witness ==
    /\ NormalizedSuccess
    /\ response.ai_synthesis = "S"
    /\ response.extracted_content = "E"
    /\ ~Truthy(response.ai_analysis)
    /\ ~Truthy(response.content)
    /\ normalized.ai_analysis = "S"
    /\ normalized.content = "S"

\* C7 as stated: the AI text surfaced (by Results on the normalized result,
\* by ResultsEnhanced on the response) is the first non-empty of
\* ai_synthesis, ai_analysis, extracted_content.
C7_Original ==
    NormalizedSuccess =>
        LET first == Shown(Or(response.ai_synthesis,
                              Or(response.ai_analysis, response.extracted_content)))
        IN  /\ ResultsAiText(normalized) = first
            /\ ResultsEnhancedAiText(ResponseBody(response)) = first

\* C7, amended: the AI text surfaced is the first non-empty of ai_analysis,
\* ai_synthesis, extracted_content, in that order: by Results on the
\* normalized result, and by ResultsEnhanced on the response as well as on
\* the normalized result.
C7_AnalysisFirst ==
    NormalizedSuccess =>
        LET first == Shown(Or(response.ai_analysis,
                              Or(response.ai_synthesis, response.extracted_content)))
        IN  /\ ResultsAiText(normalized) = first
            /\ ResultsEnhancedAiText(ResponseBody(response)) = first
            /\ ResultsEnhancedAiText(normalized) = first

\* C7 witness: all three fields are present and the analysis is shown.
C7_Witness ==
    /\ NormalizedSuccess
    /\ response.ai_synthesis = "S"
    /\ response.ai_analysis = "A"
    /\ response.extracted_content = "E"
    /\ ResultsAiText(normalized) = "A"

NoPatternMatches(url) == \A i \in 1..Len(patterns) : ~PatternTest(patterns[i], url)

\* C8: for every non-empty URL that matches no pattern of the table,
\* detectIntent returns type general with confidence 0.5.
C8_GeneralFallback ==
    (Len(currentUrl) > 0 /\ NoPatternMatches(currentUrl)) =>
        /\ detectedIntent.type = "general"
        /\ detectedIntent.confidence = GeneralConfidence

\* C8 witness: a two-token URL matching nothing is in the field and its
\* detected intent is general.
C8_Witness ==
    /\ Len(currentUrl) = 2
    /\ NoPatternMatches(currentUrl)
    /\ ~IsNull(detectedIntent)
    /\ detectedIntent.type = "general"

\* C9 as stated: for the empty URL detectIntent returns general with
\* confidence 0.5, and that is the detected intent.
C9_Original ==
    Len(currentUrl) = 0 =>
        /\ detectIntent(currentUrl) = GeneralIntent
        /\ detectedIntent = GeneralIntent

\* C9, amended: for the empty URL detectIntent returns null (an absent
\* value, not an error) and so the detected intent is null; the option panels
\* receive the substitute { type: 'general' }, which has no confidence; no
\* request is ever built from an empty URL, and for every non-empty URL
\* detectIntent returns an intent.
C9_EmptyUrlIsNull ==
    /\ Len(currentUrl) = 0 =>
          /\ detectIntent(currentUrl) = Null
          /\ detectedIntent = Null
          /\ intentOrGeneral(detectedIntent) = [type |-> "general"]
    /\ Len(currentUrl) > 0 => ~IsNull(detectIntent(currentUrl))
    /\ ~IsNull(submitted) =>
          /\ Len(submitted.url) > 0
          /\ submitted.detected_intent = detectIntent(submitted.url)
          /\ submitted.intent = submitted.detected_intent.type

\* C9 witness: the URL field is empty again after a request has been built.
C9_Witness ==
    /\ Len(currentUrl) = 0
    /\ IsNull(detectedIntent)
    /\ ~IsNull(submitted)

\* C10: when a URL matches one or more patterns, detectIntent returns the
\* type of the earliest matching entry of the table with confidence 0.8; a
\* later matching entry never wins, and the request built from the same URL
\* carries the same intent.
C10_FirstMatchWins ==
    /\ \A i \in 1..Len(patterns) :
          (/\ PatternTest(patterns[i], currentUrl)
           /\ \A j \in 1..(i - 1) : ~PatternTest(patterns[j], currentUrl)) =>
              detectedIntent = [type |-> patterns[i].type, confidence |-> MatchConfidence]
    /\ (~IsNull(submitted) /\ submitted.url = currentUrl) =>
          submitted.detected_intent = detectedIntent

\* C10 witness: the URL matches the ecommerce and the article patterns, in
\* that textual order, and article, the earlier table entry, is detected.
C10_Witness ==
    /\ currentUrl = <<"shop", "news">>
    /\ detectedIntent.type = "article"
    /\ ~IsNull(submitted)
    /\ submitted.url = currentUrl

\* The values a query string carries under a name.
ParamValues(params, name) == {params[k][2] : k \in {j \in 1..Len(params) : params[j][1] = name}}

ParamCount(params, name) == Cardinality({k \in 1..Len(params) : params[k][1] = name})

\* The query string carries page, limit=10 and include_content=false, once
\* each, and no parameter with an empty value.
BaseParams(params) ==
    /\ ParamCount(params, "page") = 1
    /\ ParamCount(params, "limit") = 1 /\ ParamValues(params, "limit") = {"10"}
    /\ ParamCount(params, "include_content") = 1
    /\ ParamValues(params, "include_content") = {"false"}
    /\ \A k \in 1..Len(params) : params[k][2] # ""

\* The query string carries the filter `name` exactly when `field` is
\* non-empty, and then once, with the field's value.
FilterFollows(params, name, field) ==
    IF field = "" THEN ParamCount(params, name) = 0
    ELSE ParamCount(params, name) = 1 /\ ParamValues(params, name) = {field}

\* The activation a step has started, if it started one.
Started == Len(fetches') = Len(fetches) + 1
NewFetch == fetches'[Len(fetches')]

\* C11 as stated: every query string built by fetchHistory carries page,
\* limit=10 and include_content=false, and carries a query / mode / status
\* parameter if and only if the corresponding UI field is a non-empty string.
C11_Original ==
    [][Started =>
          /\ BaseParams(NewFetch.params)
          /\ FilterFollows(NewFetch.params, "query", searchQuery)
          /\ FilterFollows(NewFetch.params, "mode", selectedMode)
          /\ FilterFollows(NewFetch.params, "status", selectedStatus)]_vars

\* C11, amended: every query string built by fetchHistory carries page,
\* limit=10 and include_content=false and never a parameter with an empty
\* value.  A fetch made by SEARCH or by a pagination button carries a query /
\* mode / status parameter if and only if the corresponding UI field is
\* non-empty, with the field's value (and SEARCH asks for page 1).  The fetch
\* made when the view opens asks for page 1 and carries no filter at all,
\* whatever the filter fields hold from an earlier visit.
C11_FiltersFromArguments ==
    [][Started =>
          /\ BaseParams(NewFetch.params)
          /\ NewFetch.by \in {"search", "page"} =>
                /\ FilterFollows(NewFetch.params, "query", searchQuery)
                /\ FilterFollows(NewFetch.params, "mode", selectedMode)
                /\ FilterFollows(NewFetch.params, "status", selectedStatus)
          /\ NewFetch.by \in {"search", "open"} =>
                ParamValues(NewFetch.params, "page") = {"1"}
          /\ NewFetch.by = "open" => Len(NewFetch.params) = 3]_vars

\* C11 witness: a SEARCH with a query and a status but no mode is in flight,
\* and its query string has the two filters and no mode parameter.
C11_Witness ==
    \E f \in 1..Len(fetches) :
        /\ fetches[f].pc = "wait"
        /\ fetches[f].by = "search"
        /\ searchQuery = "cats" /\ selectedMode = "" /\ selectedStatus = "failed"
        /\ ParamValues(fetches[f].params, "query") = {"cats"}
        /\ ParamValues(fetches[f].params, "status") = {"failed"}
        /\ ParamCount(fetches[f].params, "mode") = 0

\* A fetch fails when fetch or response.json() rejects, when the body's
\* status is not success, or when handling the body throws.
HistFetchFails(resp) ==
    \/ resp.net = "fail"
    \/ resp.json # "object"
    \/ resp.status # "success"
    \/ ~resp.pagination

\* C12 as stated: when a fetch of the history view completes, a response with
\* status success replaces results, currentPage and totalPages by its own
\* values (nothing of the earlier rows is kept), a fetch that fails changes
\* none of the three and sets error to a message, and loading is false.
C12_Original ==
    [][\A f \in 1..Len(fetches) :
          (fetches[f].pc = "wait" /\ fetches'[f].pc = "done") =>
              LET resp == fetches'[f].answer
              IN  /\ ~loading'
                  /\ IF HistFetchFails(resp)
                     THEN /\ histResults' = histResults
                          /\ currentPage' = currentPage
                          /\ totalPages' = totalPages
                          /\ Truthy(histError')
                     ELSE /\ histResults' = resp.results
                          /\ currentPage' = resp.page
                          /\ totalPages' = resp.pages]_vars

\* A batch that has started and not ended.
BatchRunning(run) == IsBatchRun(run) /\ run.pc # "done"

\* C13: once a batch has started no user action stops it.  PURGE, clearing
\* the log and a further submission leave the batch's activation as it is;
\* provided every backend call returns, the batch ends; and it ends only out
\* of the pause after its last item, having issued exactly N requests, one
\* per URL, with progress = 100 and current = null, results set to the batch
\* aggregate and isProcessing false.
C13_BatchRunsToCompletion ==
    /\ \A r \in 1..MaxRuns : BatchRunning(runs[r]) ~> (runs[r].pc = "done")
    /\ [][\A r \in 1..MaxRuns :
            BatchRunning(runs[r]) =>
                /\ (handleClear \/ ClearLogs \/ SubmitClick \/ SubmitEnter) =>
                       runs'[r] = runs[r]
                /\ runs'[r].pc = "done" =>
                       /\ runs[r].pc = "bdelay"
                       /\ runs'[r].sent = runs[r].data.urls
                       /\ Len(runs'[r].answers) = Len(runs[r].data.urls)
                       /\ batchProgress'.progress = Frac(100, 1)
                       /\ batchProgress'.current = NullUrl
                       /\ results'.status = "success"
                       /\ results'.batch_summary.total = Len(runs[r].data.urls)
                       /\ Len(results'.batch_results) = Len(runs[r].data.urls)
                       /\ ~isProcessing']_vars

\* C13 witness: a batch of three, the only submission made, has ended with
\* its aggregate on display although PURGE was pressed while it ran (the
\* progress record, rebuilt from null, has lost its total).
C13_Witness ==
    \E r \in 1..MaxRuns :
        /\ IsBatchRun(runs[r]) /\ runs[r].pc = "done"
        /\ \A q \in 1..MaxRuns : q # r => runs[q].pc = "idle"
        /\ Len(runs[r].sent) = 3
        /\ ~IsNull(batchProgress)
        /\ "total" \notin DOMAIN batchProgress
        /\ batchProgress.progress = Frac(100, 1)
        /\ ~IsNull(results)
        /\ results.batch_summary.total = 3
        /\ ~isProcessing

\* C14 as stated: for every submission that carries a non-empty urls list,
\* once it has ended the backend has been called exactly once per listed URL,
\* with the listed URLs as the requests' urls, in list order, for a list of
\* any length, a list of exactly one URL included.
C14_Original ==
    \A r \in 1..MaxRuns :
        (runs[r].pc = "done" /\ runs[r].data.urls_set /\ Len(runs[r].data.urls) >= 1) =>
            runs[r].sent = runs[r].data.urls

\* No batch is running.
NoBatchRunning == \A q \in 1..MaxRuns : ~BatchRunning(runs[q])

\* C15 as stated: in every state after a batch has completed (and with no
\* other batch running) batchProgress is null.
C15_Original ==
    (NoBatchRunning /\ \E r \in 1..MaxRuns : IsBatchRun(runs[r]) /\ runs[r].pc = "done") =>
        IsNull(batchProgress)

\* C15, amended (App.svelte): the step that ends a batch leaves batchProgress
\* holding its final record, with progress = 100, current = null and the
\* batch's final completed and failed counts; the record is not discarded
\* then, and batchProgress goes from a record to null only by PURGE or by the
\* start of another submission.
C15_FinalRecordKept ==
    [][/\ \A r \in 1..MaxRuns :
             (BatchRunning(runs[r]) /\ runs'[r].pc = "done") =>
                 /\ ~IsNull(batchProgress')
                 /\ batchProgress'.progress = Frac(100, 1)
                 /\ batchProgress'.current = NullUrl
                 /\ batchProgress'.completed = runs[r].completed
                 /\ batchProgress'.failed = runs[r].failed
       /\ (~IsNull(batchProgress) /\ IsNull(batchProgress')) =>
             (handleClear \/ SubmitClick \/ SubmitEnter)]_vars

\* C15 witness: a batch of three, the only submission made, has ended and its
\* full progress record is still there, at 100 with two failures counted.
C15_Witness ==
    \E r \in 1..MaxRuns :
        /\ IsBatchRun(runs[r]) /\ runs[r].pc = "done"
        /\ \A q \in 1..MaxRuns : q # r => runs[q].pc = "idle"
        /\ ~isProcessing
        /\ batchProgress = [total |-> 3, completed |-> 1, failed |-> 2,
                            progress |-> Frac(100, 1), current |-> NullUrl]

\* The answer a step has collected from the user, if prompt() was shown.
Prompted == Len(prompts') = Len(prompts) + 1
Answer == prompts'[Len(prompts')]

\* C16: the API-key prompt is shown at most once per page load, and only if
\* no key is stored when the page loads (nothing but the prompt's own answer
\* ever changes the stored key or apiKey); if the answer is non-blank
\* after trimming, the trimmed text becomes both apiKey and the value in local
\* storage, and otherwise (Cancel, empty, blank) neither changes.
C16_PromptOnceAndStore ==
    /\ [](Len(prompts) <= 1)
    /\ [][/\ Prompted =>
                /\ storedKey = NullKey /\ apiKey = NullKey
                /\ IF Answer # NullKey /\ \E k \in 1..Len(Answer) : Answer[k] # " "
                   THEN /\ apiKey' = Trim(Answer)
                        /\ storedKey' = Trim(Answer)
                        /\ Head(apiKey') # " " /\ apiKey'[Len(apiKey')] # " "
                   ELSE apiKey' = apiKey /\ storedKey' = storedKey
          /\ (apiKey' # apiKey \/ storedKey' # storedKey) => Prompted]_vars

\* C16 witness: the page loaded without a key, the prompt was shown once and
\* answered with a key between blanks, and the bare key is in apiKey and in
\* local storage; the effect has run again since and no prompt is scheduled.
C16_Witness ==
    /\ prompts = << <<" ", "k", " ">> >>
    /\ apiKey = <<"k">>
    /\ storedKey = <<"k">>
    /\ Len(healthChecks) >= 3
    /\ ~effectDue
    /\ promptTimer = 0

\* The health check a step has completed, if it completed one.
CheckCompleted(h) ==
    h <= Len(healthChecks) /\ healthChecks[h].pc = "wait" /\ healthChecks'[h].pc = "done"

\* The response was received and its body parsed as JSON.
HealthParsed(resp) == resp.net = "ok" /\ resp.json # "invalid"

\* C17 as stated: a completed check sets databaseStatus to healthy exactly
\* when the body's database field is a string containing "healthy", to
\* unhealthy for every other successfully parsed response, and to error when
\* the request or the parsing throws.
C17_Original ==
    [][\A h \in 1..Len(healthChecks') :
          CheckCompleted(h) =>
              LET resp == healthChecks'[h].answer
              IN  databaseStatus' =
                     (IF ~HealthParsed(resp) THEN "error"
                      ELSE IF /\ resp.json = "object"
                              /\ resp.database.kind = "string"
                              /\ Includes(resp.database.text, "healthy")
                           THEN "healthy"
                      ELSE "unhealthy")]_vars

\* C17, amended: a completed check sets databaseStatus to error when the
\* request or the parsing throws and also when the parsed body is null or
\* its database field is a truthy value that is neither a string nor an array;
\* to healthy when the field is a string containing "healthy" (any such
\* string, "unhealthy" included) or an array with the element "healthy"; and
\* to unhealthy otherwise (field absent, null, empty, or without "healthy").
\* Once a check has completed databaseStatus is never unknown, and the history
\* button is offered only in the healthy state, which only a response whose
\* database field includes "healthy" brings about.
C17_StatusFromIncludes ==
    /\ [][\A h \in 1..Len(healthChecks') :
            CheckCompleted(h) =>
                LET resp == healthChecks'[h].answer
                    database == resp.database
                IN  databaseStatus' =
                       (IF ~HealthParsed(resp) \/ resp.json = "null" THEN "error"
                        ELSE IF database.kind = "number" THEN "error"
                        ELSE IF /\ database.kind \in {"string", "array"}
                                /\ \E k \in 1..Len(database.text) :
                                       database.text[k] = "healthy"
                             THEN "healthy"
                        ELSE "unhealthy")]_vars
    /\ []((\E h \in 1..Len(healthChecks) : healthChecks[h].pc = "done") =>
             databaseStatus \in {"healthy", "unhealthy", "error"})
    /\ [](historyButtonOffered =>
             /\ databaseStatus = "healthy"
             /\ \E h \in 1..Len(healthChecks) :
                    /\ healthChecks[h].pc = "done"
                    /\ Includes(healthChecks[h].answer.database.text, "healthy"))

\* C17 witness: the only check made so far was answered with database:
\* "unhealthy", the status is healthy and the history button is offered.
C17_Witness ==
    /\ Len(healthChecks) = 1
    /\ healthChecks[1].pc = "done"
    /\ healthChecks[1].answer.json = "object"
    /\ healthChecks[1].answer.database = DatabaseValue("string", <<"un", "healthy">>)
    /\ databaseStatus = "healthy"
    /\ historyButtonOffered

\* a <= b on fractions.
FracLeq(a, b) == a.num * b.den <= b.num * a.den

\* The batch activation r issues a request in this step.
Issues(r) == IsBatchRun(runs'[r]) /\ Len(runs'[r].sent) = Len(runs[r].sent) + 1

\* C18: during a batch of N URLs, at the moment request i (0-based) is issued
\* batchProgress has current = URL i, completed = i and progress = i/N*100;
\* progress stays within 0..100; the values the batch gives it never decrease
\* from one of its steps to the next (and where no other batch has been
\* submitted, the progress on display never decreases); and the step that ends
\* the loop leaves progress = 100 and current = null.
C18_ProgressValues ==
    /\ [](~IsNull(batchProgress) =>
             /\ FracLeq(Frac(0, 1), batchProgress.progress)
             /\ FracLeq(batchProgress.progress, Frac(100, 1)))
    /\ [][\A r \in 1..MaxRuns :
            LET N == Len(runs'[r].data.urls)
                i == Len(runs[r].sent)
            IN  /\ Issues(r) =>
                      /\ batchProgress'.current = runs'[r].data.urls[i + 1]
                      /\ batchProgress'.completed = i
                      /\ batchProgress'.progress = Frac(i * 100, N)
                      /\ batchProgress'.progress.num * N = i * 100 * batchProgress'.progress.den
                /\ (BatchRunning(runs[r]) /\ runs'[r].i # runs[r].i) =>
                      /\ FracLeq(Frac(runs[r].i * 100, N), batchProgress'.progress)
                      /\ runs'[r].pc = "done" =>
                            /\ batchProgress'.progress = Frac(100, 1)
                            /\ batchProgress'.current = NullUrl
                /\ (/\ BatchRunning(runs[r])
                    /\ \A q \in 1..MaxRuns : q # r => ~IsBatchRun(runs'[q])
                    /\ ~IsNull(batchProgress) /\ ~IsNull(batchProgress')) =>
                      FracLeq(batchProgress.progress, batchProgress'.progress)]_vars

\* C18 witness: the third request of a batch of three has just been issued
\* and the progress record shows its URL, completed = 2 and progress = 200/3.
C18_Witness ==
    \E r \in 1..MaxRuns :
        /\ IsBatchRun(runs[r]) /\ runs[r].pc = "bfetch"
        /\ Len(runs[r].data.urls) = 3
        /\ Len(runs[r].sent) = 3
        /\ batchProgress = [total |-> 3, completed |-> 2, failed |-> 0,
                            current |-> runs[r].data.urls[3],
                            progress |-> [num |-> 200, den |-> 3]]

\* An exception is raised inside callSmartBackend: fetch rejects,
\* response.json() rejects, or a field of a null body is read.
RaisesInside(resp) == resp.net = "fail" \/ resp.json \in {"invalid", "null"}

C20_RequestShape ==
    /\ [](~IsNull(submitted) =>
            /\ Len(submitted.url) > 0
            /\ submitted.stealth = TRUE
            /\ submitted.stealth_level \in {4, 8}
            /\ submitted.stealth_level = 8 <=> submitted.intent = "stealth"
            /\ submitted.strategy \in {"bfs", "dfs"}
            /\ submitted.ai_extraction.enabled = TRUE
            /\ submitted.ai_extraction.model # "")
    /\ [][/\ Len(currentUrl) = 0 => submitted' = submitted
          /\ submitted' # submitted =>
                /\ submitted'.url = currentUrl
                /\ submitted'.ai_extraction.model =
                       (IF aiModel = "" THEN "groq" ELSE aiModel)
                /\ submitted'.strategy = crawlStrategy]_vars

\* C20 witness: the model field is empty, as PURGE leaves it, and the request
\* on record for the URL in the field carries the model groq and the strategy
\* the user picked.
C20_Witness ==
    /\ ~IsNull(submitted)
    /\ aiModel = ""
    /\ Len(currentUrl) > 0 /\ submitted.url = currentUrl
    /\ crawlStrategy = "dfs" /\ submitted.strategy = "dfs"
    /\ submitted.ai_extraction.model = "groq"

\* A submission is in flight: its handler has started and has not reached
\* the end of its finally block (App) or of its try/catch (AppEnhanced).
SubmissionInFlight(run) == run.pc \notin {"idle", "done"}

\* C21 as stated: isProcessing is true in every state in which a submission
\* is in flight, and a step makes it false only when it leaves no submission
\* in flight.
C21_Original ==
    /\ []((\E r \in 1..MaxRuns : SubmissionInFlight(runs[r])) => isProcessing = TRUE)
    /\ [][(isProcessing = TRUE /\ isProcessing' = FALSE) =>
             \A r \in 1..MaxRuns : ~SubmissionInFlight(runs'[r])]_vars

\* C22 as stated: whenever batchProgress is non-null while a batch is running
\* or after it has ended, it carries total = N, the number of URLs of that
\* batch, and a numeric failed count, PURGE included among the steps.
C22_Original ==
    ~IsNull(batchProgress) =>
        \A r \in 1..MaxRuns :
            IsBatchRun(runs[r]) =>
                /\ "total" \in DOMAIN batchProgress
                /\ batchProgress.total = Len(runs[r].data.urls)
                /\ "failed" \in DOMAIN batchProgress
                /\ batchProgress.failed \in Nat

\* C23 as stated: over the life of a batch, from its initialisation through
\* every per-item update to the final update after the loop, no step of the
\* batch makes batchProgress.completed smaller.
C23_Original ==
    [][\A r \in 1..MaxRuns :
          (/\ BatchRunning(runs[r])
           /\ runs'[r] # runs[r]
           /\ ~IsNull(batchProgress) /\ ~IsNull(batchProgress')) =>
              batchProgress'.completed >= batchProgress.completed]_vars

\* Every activation of fetchHistory has returned, each with a success body of
\* the documented shape.
AllFetchesSucceeded ==
    /\ Len(fetches) > 0
    /\ \A k \in 1..Len(fetches) :
          fetches[k].pc = "done" /\ fetches[k].answer \in HistSuccesses

\* C24 as stated: once all the fetchHistory requests made have completed, the
\* rows on display and currentPage are those answered to the request issued
\* last, whatever the order in which the responses arrived.
C24_Original ==
    AllFetchesSucceeded =>
        LET last == fetches[Len(fetches)].answer
        IN  /\ histResults = last.results
            /\ currentPage = last.page

\* C25: for every totalPages > 1 and currentPage in 1..totalPages, the
\* page-number buttons are consecutive page numbers within 1..totalPages with
\* currentPage among them; and every page a click on PREV, NEXT or a number
\* button requests lies in 1..totalPages.
C25_PageButtonsInRange ==
    /\ []((totalPages > 1 /\ currentPage \in 1..totalPages) =>
            LET buttons == pageButtons(currentPage, totalPages)
            IN  /\ buttons \subseteq 1..totalPages
                /\ currentPage \in buttons
                /\ \A p \in 1..totalPages :
                      (\E a, b \in buttons : a <= p /\ p <= b) => p \in buttons)
    /\ [][(Started /\ NewFetch.by = "page") =>
             \E p \in 1..totalPages : NewFetch.params[1] = <<"page", ToString(p)>>]_vars

\* C25 witness: a click has brought the view to the last page of the longest
\* listing, where the buttons are the last three pages.
C25_Witness ==
    /\ totalPages = 7 /\ currentPage = 7
    /\ pageButtons(currentPage, totalPages) = {5, 6, 7}
    /\ Len(fetches) = 2
    /\ fetches[2].by = "page" /\ fetches[2].pc = "done"
    /\ fetches[1].answer.page # 7

\* The success-level "Crawl completed successfully" entries among the entries
\* a step has appended to the terminal log.
CompletedEntries ==
    LET new == Appended(terminalLogs, terminalLogs')
    IN  {k \in 1..Len(new) : /\ new[k].message = "Crawl completed successfully"
                             /\ new[k].level = "success"}

\* C26 as stated: in AppEnhanced, the step in which a submission ends appends
\* a success-level "Crawl completed successfully" entry only if the backend
\* result's status is success, and appends at most one such entry.
C26_Original ==
    [][\A r \in 1..MaxRuns :
          (runs[r].pc = "efetch" /\ runs'[r].pc = "done") =>
              /\ Cardinality(CompletedEntries) <= 1
              /\ CompletedEntries # {} => runs'[r].answers[1].status = "success"]_vars

\* The first non-empty of ai_analysis, ai_synthesis, extracted_content of a
\* response body.
FirstAiText(resp) ==
    Shown(Or(resp.ai_analysis, Or(resp.ai_synthesis, resp.extracted_content)))

C28_Original ==
    /\ [](showResultViewer => selectedResultId # Undef)
    /\ [][(showResultViewer' /\ <<showResultViewer, selectedResultId>>
                                    # <<showResultViewer', selectedResultId'>>) =>
             ~visible']_vars
    /\ [](~(visible /\ showResultViewer))

\* C29: the step that ends a batch of N URLs assigns to results an aggregate
\* of status success, whatever the number of failed items, all N included;
\* the result components take it for a batch and not for an error; and
\* while results holds batch results its status is success.
C29_AggregateAlwaysSuccess ==
    /\ [][\A r \in 1..MaxRuns :
             (BatchRunning(runs[r]) /\ runs'[r].pc = "done") =>
                 /\ results'.status = "success"
                 /\ results'.batch_summary.total = Len(runs[r].data.urls)
                 /\ results'.batch_summary.failed = FailureCount(runs[r].answers)
                 /\ Len(results'.batch_results) = Len(runs[r].data.urls)
                 /\ isBatch(results') /\ ~isError(results')]_vars
    /\ [](isBatch(results) => ~isError(results))

\* C29 witness: a batch of three has ended with all three items failed, and
\* results holds a success aggregate listing the three error results.
C29_Witness ==
    \E r \in 1..MaxRuns :
        /\ IsBatchRun(runs[r]) /\ runs[r].pc = "done"
        /\ Len(runs[r].data.urls) = 3
        /\ FailureCount(runs[r].answers) = 3
        /\ isBatch(results) /\ ~isError(results)
        /\ results.status = "success"
        /\ results.batch_summary.failed = 3 /\ results.batch_summary.completed = 0
        /\ \A k \in 1..3 : results.batch_results[k].status = "error"

=============================================================================
